---- MODULE Spec2Model ----
(***************************************************************************)
(* Model of the METAR/TAF decoding and flight-category classification of   *)
(* meteo-bretagne-vfr (METAR.py, web_app.py, weather.py).                  *)
(*                                                                         *)
(* Raw reports are TLA+ strings; the regular expressions of the source are *)
(* written out as operators over the characters of the string, with the    *)
(* greedy/lazy matching order of Python's re module.                       *)
(*                                                                         *)
(* Python's Optional[T] is modelled as a tuple: None is <<>> and a value v *)
(* is <<v>>.  A visibility in statute miles (a float in the source) is     *)
(* held in millionths of a statute mile, rounded down; every comparison    *)
(* the source makes on it is against a whole number of miles, so the       *)
(* rounding never changes an outcome.                                      *)
(***************************************************************************)
EXTENDS Integers, Sequences, FiniteSets, TLC

VARIABLES
    metar_raw,      \* Optional[str]: the raw METAR handed to the decoder
    ntok,           \* number of groups appended to the raw text so far
    phase,          \* "input" while the text is assembled, then "done"
    parsed,         \* result of the last parse_metar_vfr call
    score_call,     \* result of the last direct calculate_vfr_score call
    weather,        \* Optional Weather record built by fetch_all_weather
    lite,           \* Optional result of weather.decode_metar_raw
    taf_raw,        \* str: the raw TAF handed to the TAF decoders
    taf_decoded,    \* Optional result of web_app.decode_taf_detailed
    taf_printed,    \* Optional header and period sections printed by describe_taf
    detailed,       \* Optional result of decode_metar_detailed / describe_conditions
    weather_data,   \* list of Weather records built by fetch_all_weather
    sorted_weather, \* Optional list: weather_data as ranked for display
    call_log,       \* the decode calls made so far, each with its result
    weather_cache,  \* web_app.weather_cache: data, airports, session, last_update
    written_by,     \* for each cache field, the refresh that assigned it last
    now,            \* datetime.now(), in seconds
    calls,          \* number of requests received so far
    req             \* per request thread: the request it serves and its locals

vars == <<metar_raw, ntok, phase, parsed, score_call, weather, lite,
          taf_raw, taf_decoded, taf_printed,
          detailed, weather_data, sorted_weather,
          call_log, weather_cache, written_by, now, calls, req>>

-----------------------------------------------------------------------------
(* Bounds of the model.                                                    *)

MaxTokens == 2

MaxTafGroups == 4

MaxDetailTokens == 2

MaxStations == 3

MaxCalls == 3

MaxRequests == 3

MaxTicks == 2

MaxThreads == 2

-----------------------------------------------------------------------------
(* Optional values.                                                        *)

None == <<>>

Some(v) == <<v>>

IsSet(o) == o # <<>>

Val(o) == o[1]

-----------------------------------------------------------------------------
(* Characters and strings.                                                 *)

Sub(s, a, b) ==
    IF a < 1 \/ b > Len(s) \/ a > b THEN "" ELSE SubSeq(s, a, b)

Ch(s, i) == Sub(s, i, i)

LowerAlpha == "abcdefghijklmnopqrstuvwxyz"

UpperAlpha == "ABCDEFGHIJKLMNOPQRSTUVWXYZ"

LowerSet == {Ch(LowerAlpha, i) : i \in 1..26}

UpperSet == {Ch(UpperAlpha, i) : i \in 1..26}

DigitSet == {"0", "1", "2", "3", "4", "5", "6", "7", "8", "9"}

IsDigit(c) == c \in DigitSet

IsSpace(c) == c \in {" ", "\n", "\t", "\r"}

IsWordCh(c) == c \in DigitSet \/ c \in UpperSet \/ c \in LowerSet \/ c = "_"

UpperCh(c) ==
    IF c \in LowerSet
    THEN Ch(UpperAlpha, CHOOSE i \in 1..26 : Ch(LowerAlpha, i) = c)
    ELSE c

RECURSIVE Upper(_)
Upper(s) ==
    IF s = "" THEN ""
    ELSE IF Len(s) = 1 THEN UpperCh(Head(s))
    ELSE Upper(Sub(s, 1, Len(s) \div 2)) \o Upper(Sub(s, Len(s) \div 2 + 1, Len(s)))

LitAt(s, i, lit) == Sub(s, i, i + Len(lit) - 1) = lit

Contains(s, lit) == \E i \in 1..Len(s) : LitAt(s, i, lit)

WordBoundary(s, i) == IsWordCh(Ch(s, i - 1)) # IsWordCh(Ch(s, i))

AtEnd(s, i) == i = Len(s) + 1 \/ (i = Len(s) /\ Ch(s, i) = "\n")

RECURSIVE DigitRunEnd(_, _)
DigitRunEnd(s, i) == IF IsDigit(Ch(s, i)) THEN DigitRunEnd(s, i + 1) ELSE i

RECURSIVE SpaceRunEnd(_, _)
SpaceRunEnd(s, i) == IF IsSpace(Ch(s, i)) THEN SpaceRunEnd(s, i + 1) ELSE i

RECURSIVE TokenEnd(_, _)
TokenEnd(s, i) ==
    IF i <= Len(s) /\ ~IsSpace(Ch(s, i)) THEN TokenEnd(s, i + 1) ELSE i

AllDigits(s, a, b) == \A k \in a..b : IsDigit(Ch(s, k))

DigitVal(c) == CHOOSE n \in 0..9 : Ch("0123456789", n + 1) = c

RECURSIVE ParseInt(_)
ParseInt(s) ==
    IF s = "" THEN 0
    ELSE ParseInt(Sub(s, 1, Len(s) - 1)) * 10 + DigitVal(Ch(s, Len(s)))

RECURSIVE LStrip(_)
LStrip(s) == IF s # "" /\ IsSpace(Head(s)) THEN LStrip(Tail(s)) ELSE s

RECURSIVE RStrip(_)
RStrip(s) ==
    IF s # "" /\ IsSpace(Ch(s, Len(s)))
    THEN RStrip(Sub(s, 1, Len(s) - 1)) ELSE s

Strip(s) == RStrip(LStrip(s))

MinOf(S) == CHOOSE m \in S : \A n \in S : m <= n

-----------------------------------------------------------------------------
(* METAR.parse_metar_vfr                                                   *)

\* re.search(r'\b(\d+(?:/\d+)?)SM\b') tried at position i: group 1 or None.
SmMatchAt(s, i) ==
    LET e1 == DigitRunEnd(s, i)
        e2 == IF Ch(s, e1) = "/" THEN DigitRunEnd(s, e1 + 1) ELSE e1
        frac  == /\ Ch(s, e1) = "/"
                 /\ e2 > e1 + 1
                 /\ LitAt(s, e2, "SM")
                 /\ WordBoundary(s, e2 + 2)
        plain == LitAt(s, e1, "SM") /\ WordBoundary(s, e1 + 2)
    IN  IF ~(e1 > i /\ WordBoundary(s, i)) THEN None
        ELSE IF frac THEN Some(Sub(s, i, e2 - 1))
        ELSE IF plain THEN Some(Sub(s, i, e1 - 1))
        ELSE None

SmSearch(s) ==
    LET I == {i \in 1..Len(s) : IsSet(SmMatchAt(s, i))}
    IN  IF I = {} THEN None ELSE SmMatchAt(s, MinOf(I))

\* re.search(r'\b(\d{4})\b') tried at position i.
MetersMatchAt(s, i) ==
    /\ i + 3 <= Len(s)
    /\ AllDigits(s, i, i + 3)
    /\ WordBoundary(s, i)
    /\ WordBoundary(s, i + 4)

MetersSearch(s) ==
    LET I == {i \in 1..Len(s) : MetersMatchAt(s, i)}
    IN  IF I = {} THEN None ELSE Some(Sub(s, MinOf(I), MinOf(I) + 3))

\* str.split('/') of group 1 when it holds a '/': <<num, denom>>.
SplitSlash(v) ==
    LET k == CHOOSE j \in 1..Len(v) : Ch(v, j) = "/"
    IN  <<Sub(v, 1, k - 1), Sub(v, k + 1, Len(v))>>

\* float(num) / float(denom), in millionths, for denom # 0.
MicroQuotient(num, denom) == (num * 1000000) \div denom

\* meters * 0.000621371, in millionths.
MetersToMicroSm(meters) == meters * 621 + (meters * 371) \div 1000

\* cloud_pattern r'\b(BKN|OVC)(\d{3})\b' tried at position i.
CeilingLayerAt(s, i) ==
    /\ LitAt(s, i, "BKN") \/ LitAt(s, i, "OVC")
    /\ i + 5 <= Len(s)
    /\ AllDigits(s, i + 3, i + 5)
    /\ WordBoundary(s, i)
    /\ WordBoundary(s, i + 6)

\* for match in cloud_pattern.finditer(metar): keep the lowest height.
RECURSIVE CeilingLoop(_, _, _)
CeilingLoop(s, i, ceiling_ft) ==
    IF i > Len(s) THEN ceiling_ft
    ELSE IF CeilingLayerAt(s, i)
    THEN LET height == ParseInt(Sub(s, i + 3, i + 5)) * 100
         IN  CeilingLoop(s, i + 6,
                 IF ~IsSet(ceiling_ft) \/ height < Val(ceiling_ft)
                 THEN Some(height) ELSE ceiling_ft)
    ELSE CeilingLoop(s, i + 1, ceiling_ft)

\* Categorize with the lowest ceiling threshold made exclusive.
Categorize_ExclusiveIfrCeiling(vis, ceil) ==
    IF vis >= 5000000 /\ ceil >= 3000 THEN "VFR"
    ELSE IF vis >= 3000000 /\ ceil >= 1000 THEN "MVFR"
    ELSE IF vis >= 1000000 /\ ceil > 500 THEN "IFR"
    ELSE "LIFR"

\* The if/elif chain on vis (millionths of a mile) and ceil (feet).
Categorize(vis, ceil) ==
    IF vis >= 5000000 /\ ceil >= 3000 THEN "VFR"
    ELSE IF vis >= 3000000 /\ ceil >= 1000 THEN "MVFR"
    ELSE IF vis >= 1000000 /\ ceil >= 500 THEN "IFR"
    ELSE "LIFR"

\* FlightCategoryOf with the defaults applied even when nothing was decoded.
FlightCategoryOf_AlwaysDefault(visibility_sm, ceiling_ft) ==
    Some(Categorize(
        IF IsSet(visibility_sm) THEN Val(visibility_sm) ELSE 10000000,
        IF IsSet(ceiling_ft) THEN Val(ceiling_ft) ELSE 10000))

\* Determine flight category: only when one of the two was decoded.
FlightCategoryOf(visibility_sm, ceiling_ft) ==
    IF IsSet(visibility_sm) \/ IsSet(ceiling_ft)
    THEN Some(Categorize(
             IF IsSet(visibility_sm) THEN Val(visibility_sm) ELSE 10000000,
             IF IsSet(ceiling_ft) THEN Val(ceiling_ft) ELSE 10000))
    ELSE None

Returned(v, c, f) ==
    [raised |-> "none", visibility_sm |-> v, ceiling_ft |-> c,
     flight_category |-> f]

Raised(e) ==
    [raised |-> e, visibility_sm |-> None, ceiling_ft |-> None,
     flight_category |-> None]

\* if not metar_raw: None or the empty string.
Falsy(raw) == ~IsSet(raw) \/ Val(raw) = ""

\* parse_metar_vfr keeping the visibility of the previous parse call when
\* the report has none of its own.
parse_metar_vfr_KeepsLastVisibility(raw) ==
    LET P == {k \in 1..Len(call_log) : call_log[k].fn = "parse_metar_vfr"}
        last == call_log[CHOOSE m \in P : \A n \in P : n <= m].result
        ceiling_ft == CeilingLoop(Upper(Val(raw)), 1, None)
        visibility_sm == IF P # {} THEN last.visibility_sm ELSE None
    IN  IF Falsy(raw) THEN Returned(visibility_sm, None, None)
        ELSE IF Contains(Upper(Val(raw)), "CAVOK")
        THEN Returned(Some(10000000), None, Some("CAVOK"))
        ELSE Returned(visibility_sm, ceiling_ft,
                      FlightCategoryOf(visibility_sm, ceiling_ft))

parse_metar_vfr(raw) ==
    IF Falsy(raw) THEN Returned(None, None, None)
    ELSE
    LET metar == Upper(Val(raw))
        sm == SmSearch(metar)
        m4 == MetersSearch(metar)
        isFrac == IsSet(sm) /\ Contains(Val(sm), "/")
        parts == SplitSlash(Val(sm))
        visibility_sm ==
            IF IsSet(sm)
            THEN IF isFrac
                 THEN Some(MicroQuotient(ParseInt(parts[1]), ParseInt(parts[2])))
                 ELSE Some(ParseInt(Val(sm)) * 1000000)
            ELSE IF IsSet(m4)
                 THEN Some(MetersToMicroSm(ParseInt(Val(m4))))
                 ELSE None
        ceiling_ft == CeilingLoop(metar, 1, None)
    IN  IF Contains(metar, "CAVOK") THEN Returned(Some(10000000), None, Some("CAVOK"))
        ELSE IF isFrac /\ ParseInt(parts[2]) = 0 THEN Raised("ZeroDivisionError")
        ELSE Returned(visibility_sm, ceiling_ft,
                      FlightCategoryOf(visibility_sm, ceiling_ft))

\* calculate_vfr_score without the branch for CAVOK.
calculate_vfr_score_NoCavok(flight_category, raw) ==
    IF Falsy(raw) THEN 0
    ELSE IF flight_category = Some("VFR") THEN 4
    ELSE IF flight_category = Some("MVFR") THEN 3
    ELSE IF flight_category = Some("IFR") THEN 2
    ELSE IF flight_category = Some("LIFR") THEN 1
    ELSE 0

\* calculate_vfr_score without the test for a missing report.
calculate_vfr_score_NoRawTest(flight_category, raw) ==
    IF flight_category = Some("CAVOK") THEN 5
    ELSE IF flight_category = Some("VFR") THEN 4
    ELSE IF flight_category = Some("MVFR") THEN 3
    ELSE IF flight_category = Some("IFR") THEN 2
    ELSE IF flight_category = Some("LIFR") THEN 1
    ELSE 0

\* calculate_vfr_score with the scores of IFR and LIFR exchanged.
calculate_vfr_score_IfrLifrSwapped(flight_category, raw) ==
    IF Falsy(raw) THEN 0
    ELSE IF flight_category = Some("CAVOK") THEN 5
    ELSE IF flight_category = Some("VFR") THEN 4
    ELSE IF flight_category = Some("MVFR") THEN 3
    ELSE IF flight_category = Some("IFR") THEN 1
    ELSE IF flight_category = Some("LIFR") THEN 2
    ELSE 0

\* METAR.calculate_vfr_score
calculate_vfr_score(flight_category, raw) ==
    IF Falsy(raw) THEN 0
    ELSE IF flight_category = Some("CAVOK") THEN 5
    ELSE IF flight_category = Some("VFR") THEN 4
    ELSE IF flight_category = Some("MVFR") THEN 3
    ELSE IF flight_category = Some("IFR") THEN 2
    ELSE IF flight_category = Some("LIFR") THEN 1
    ELSE 0

-----------------------------------------------------------------------------
(* weather.decode_metar_raw                                                *)

CoverSet == {"FEW", "SCT", "BKN", "OVC"}

\* cloud_re r"(FEW|SCT|BKN|OVC)(\d{3})(CB|TCU)?" tried at position i.
CloudReAt(s, i) ==
    /\ Sub(s, i, i + 2) \in CoverSet
    /\ i + 5 <= Len(s)
    /\ AllDigits(s, i + 3, i + 5)

CloudReSuffix(s, i) ==
    IF LitAt(s, i + 6, "CB") THEN "CB"
    ELSE IF LitAt(s, i + 6, "TCU") THEN "TCU"
    ELSE ""

\* cloud_re.findall(raw): the layers in textual order, as (typ, h, suffix).
RECURSIVE CloudFindAll(_, _)
CloudFindAll(s, i) ==
    IF i > Len(s) THEN <<>>
    ELSE IF CloudReAt(s, i)
    THEN LET suf == CloudReSuffix(s, i)
         IN  <<[typ |-> Sub(s, i, i + 2), h |-> Sub(s, i + 3, i + 5),
                suffix |-> suf]>>
             \o CloudFindAll(s, i + 6 + Len(suf))
    ELSE CloudFindAll(s, i + 1)

\* ','.join(f"{l[0]}{l[1]}{l[2]}") over the layers.
RECURSIVE JoinLayers(_)
JoinLayers(layers) ==
    IF layers = <<>> THEN ""
    ELSE LET l == Head(layers)
             one == l.typ \o l.h \o l.suffix
         IN  IF Len(layers) = 1 THEN one
             ELSE one \o "," \o JoinLayers(Tail(layers))

\* for typ, h, _ in layers: the first BKN or OVC layer sets ceiling_ft; break.
RECURSIVE FirstCeiling(_)
FirstCeiling(layers) ==
    IF layers = <<>> THEN None
    ELSE IF Head(layers).typ \in {"BKN", "OVC"}
    THEN Some(ParseInt(Head(layers).h) * 100)
    ELSE FirstCeiling(Tail(layers))

\* rvr_re r"R(\d{2,4})(L|R|C)?/([MP]?\d{4})(V[MP]?\d{4})?" at i: group 3.
RvrAt(s, i) ==
    LET e == DigitRunEnd(s, i + 1)
        n == e - (i + 1)
        p == IF Ch(s, e) \in {"L", "R", "C"} THEN e + 1 ELSE e
        q == IF Ch(s, p + 1) \in {"M", "P"} THEN p + 2 ELSE p + 1
    IN  IF /\ Ch(s, i) = "R"
           /\ n >= 2 /\ n <= 4
           /\ Ch(s, p) = "/"
           /\ q + 3 <= Len(s)
           /\ AllDigits(s, q, q + 3)
        THEN Some(Sub(s, p + 1, q + 3))
        ELSE None

RvrSearch(s) ==
    LET I == {i \in 1..Len(s) : IsSet(RvrAt(s, i))}
    IN  IF I = {} THEN None ELSE RvrAt(s, MinOf(I))

decode_metar_raw(raw) ==
    IF Falsy(raw)
    THEN [cavok |-> FALSE, ceiling_ft |-> None, clouds |-> None, rvr |-> None]
    ELSE
    LET up == Upper(Val(raw))
        layers == CloudFindAll(up, 1)
    IN  IF Contains(up, "CAVOK")
        THEN [cavok |-> TRUE, ceiling_ft |-> None, clouds |-> Some("CAVOK"),
              rvr |-> None]
        ELSE [cavok |-> FALSE,
              ceiling_ft |-> FirstCeiling(layers),
              clouds |-> IF layers = <<>> THEN None
                         ELSE Some(JoinLayers(layers)),
              rvr |-> RvrSearch(up)]

-----------------------------------------------------------------------------
(* The METAR machine: a raw report is assembled group by group, then one   *)
(* of the decoding entry points is called on it.                           *)

\* The text the provider's page yields for a station starts with the ICAO
\* code and the observation time.
MetarHeader == "LFRN 151200Z"

MetarGroups ==
    {"9999", "3000", "0800", "5SM", "3SM", "1SM", "1/2SM", "1/0SM",
     "BKN005", "ovc010", "BKN030", "OVC004", "VV002", "BKN004CB", "FEW001",
     "CAVOK", "R27/0800"}

\* The values callers pass as flight_category (one is no known category).
CategoryArgs ==
    {None, Some("CAVOK"), Some("VFR"), Some("MVFR"), Some("IFR"),
     Some("LIFR"), Some("UNKNOWN")}

TafIdle ==
    /\ taf_raw = ""
    /\ taf_decoded = None
    /\ taf_printed = None

DetailIdle == detailed = None

CallsIdle == call_log = <<>>

\* weather_cache as the module is loaded, and no request in progress.
CacheIdle ==
    /\ weather_cache = [data |-> None, airports |-> None, session |-> None,
                        last_update |-> None]
    /\ written_by = [data |-> 0, airports |-> 0, last_update |-> 0]
    /\ now = 0
    /\ calls = 0
    /\ req = <<>>

RankIdle ==
    /\ weather_data = <<>>
    /\ sorted_weather = None

InitMetar ==
    /\ metar_raw \in {None, Some(""), Some(MetarHeader)}
    /\ ntok = 0
    /\ phase = "input"
    /\ parsed = None
    /\ score_call = None
    /\ weather = None
    /\ lite = None
    /\ TafIdle
    /\ DetailIdle
    /\ RankIdle
    /\ CallsIdle
    /\ CacheIdle

\* One more group of the report text, separated by a blank.
AppendGroup(g) ==
    /\ phase = "input"
    /\ ~Falsy(metar_raw)
    /\ ntok < MaxTokens
    /\ metar_raw' = Some(Val(metar_raw) \o " " \o g)
    /\ ntok' = ntok + 1
    /\ UNCHANGED <<phase, parsed, score_call, weather, lite,
                   taf_raw, taf_decoded, taf_printed,
                   detailed, weather_data, sorted_weather,
                   call_log, weather_cache, written_by, now, calls, req>>

\* A call of parse_metar_vfr(metar_raw).
ParseMetarVfr ==
    /\ phase = "input"
    /\ parsed' = Some(parse_metar_vfr(metar_raw))
    /\ phase' = "parse_metar_vfr"
    /\ UNCHANGED <<metar_raw, ntok, score_call, weather, lite,
                   taf_raw, taf_decoded, taf_printed,
                   detailed, weather_data, sorted_weather,
                   call_log, weather_cache, written_by, now, calls, req>>

\* A call of calculate_vfr_score(flight_category, metar_raw).
CalculateVfrScore(fc) ==
    /\ phase = "input"
    /\ score_call' = Some([flight_category |-> fc,
                           score |-> calculate_vfr_score(fc, metar_raw)])
    /\ phase' = "calculate_vfr_score"
    /\ UNCHANGED <<metar_raw, ntok, parsed, weather, lite,
                   taf_raw, taf_decoded, taf_printed,
                   detailed, weather_data, sorted_weather,
                   call_log, weather_cache, written_by, now, calls, req>>

\* WeatherOf keeping the upper-cased copy of the text in the record.
WeatherOf_StoresUpperCased(raw) ==
    LET r == parse_metar_vfr(raw)
    IN  IF r.raised # "none" THEN [raised |-> r.raised]
        ELSE [raised |-> "none",
              metar_raw |-> IF IsSet(raw) THEN Some(Upper(Val(raw))) ELSE raw,
              visibility_sm |-> r.visibility_sm,
              ceiling_ft |-> r.ceiling_ft,
              flight_category |-> r.flight_category,
              vfr_score |-> calculate_vfr_score(r.flight_category, raw)]

\* The body of fetch_all_weather's loop for one station: parse, score, build
\* the Weather record.  An exception raised by the parse leaves the loop.
WeatherOf(raw) ==
    LET r == parse_metar_vfr(raw)
    IN  IF r.raised # "none" THEN [raised |-> r.raised]
        ELSE [raised |-> "none",
              metar_raw |-> raw,
              visibility_sm |-> r.visibility_sm,
              ceiling_ft |-> r.ceiling_ft,
              flight_category |-> r.flight_category,
              vfr_score |-> calculate_vfr_score(r.flight_category, raw)]

\* One station of fetch_all_weather's loop.
FetchAllWeather ==
    /\ phase = "input"
    /\ weather' = Some(WeatherOf(metar_raw))
    /\ phase' = "fetch_all_weather"
    /\ UNCHANGED <<metar_raw, ntok, parsed, score_call, lite,
                   taf_raw, taf_decoded, taf_printed,
                   detailed, weather_data, sorted_weather,
                   call_log, weather_cache, written_by, now, calls, req>>

\* A call of weather.decode_metar_raw(raw).
DecodeMetarRaw ==
    /\ phase = "input"
    /\ lite' = Some(decode_metar_raw(metar_raw))
    /\ phase' = "decode_metar_raw"
    /\ UNCHANGED <<metar_raw, ntok, parsed, score_call, weather,
                   taf_raw, taf_decoded, taf_printed,
                   detailed, weather_data, sorted_weather,
                   call_log, weather_cache, written_by, now, calls, req>>

NextMetar ==
    \/ \E g \in MetarGroups : AppendGroup(g)
    \/ ParseMetarVfr
    \/ \E fc \in CategoryArgs : CalculateVfrScore(fc)
    \/ FetchAllWeather
    \/ DecodeMetarRaw

SpecMetar == InitMetar /\ [][NextMetar]_vars

-----------------------------------------------------------------------------
(* web_app.parse_taf_conditions                                            *)

\* r'\b(\d{3}|VRB)(\d{2,3})(?:G(\d{2,3}))?KT\b' tried at position i.
WindAt(s, i) ==
    LET vrb == LitAt(s, i, "VRB")
        e == DigitRunEnd(s, IF vrb THEN i + 3 ELSE i)
        n == e - i - 3
        g == DigitRunEnd(s, e + 1)
        gust == Ch(s, e) = "G"
        k == IF gust THEN g ELSE e
    IN  IF /\ WordBoundary(s, i)
           /\ vrb \/ AllDigits(s, i, i + 2)
           /\ n \in {2, 3}
           /\ gust => (g - e - 1) \in {2, 3}
           /\ LitAt(s, k, "KT")
           /\ WordBoundary(s, k + 2)
        THEN Some([wind_dir |-> Sub(s, i, i + 2),
                   wind_speed |-> ParseInt(Sub(s, i + 3, e - 1)),
                   wind_gust |-> IF gust THEN Some(ParseInt(Sub(s, e + 1, g - 1)))
                                 ELSE None])
        ELSE None

WindSearch(s) ==
    LET I == {i \in 1..Len(s) : IsSet(WindAt(s, i))}
    IN  IF I = {} THEN None ELSE WindAt(s, MinOf(I))

\* The codes looked up by substring, in the order of the list.
TafPhenomenaCodes ==
    <<"TSRA", "TS", "+RA", "-RA", "RA", "SHRA", "SN", "FG", "BR", "DZ", "GR",
      "FZRA", "+SHRA", "-SHRA">>

RECURSIVE PhenomenaIn(_, _)
PhenomenaIn(s, codes) ==
    IF codes = <<>> THEN <<>>
    ELSE (IF Contains(s, Head(codes)) THEN <<Head(codes)>> ELSE <<>>)
         \o PhenomenaIn(s, Tail(codes))

\* cloud_pattern r'\b(FEW|SCT|BKN|OVC)(\d{3})(CB|TCU)?\b' tried at position i.
TafCloudAt(s, i) ==
    /\ CloudReAt(s, i)
    /\ WordBoundary(s, i)
    /\ WordBoundary(s, i + 6 + Len(CloudReSuffix(s, i)))

RECURSIVE TafClouds(_, _)
TafClouds(s, i) ==
    IF i > Len(s) THEN <<>>
    ELSE IF TafCloudAt(s, i)
    THEN LET suf == CloudReSuffix(s, i)
         IN  <<[coverage |-> Sub(s, i, i + 2),
                height |-> ParseInt(Sub(s, i + 3, i + 5)) * 100,
                type |-> IF suf = "" THEN None ELSE Some(suf)]>>
             \o TafClouds(s, i + 6 + Len(suf))
    ELSE TafClouds(s, i + 1)

\* CloudsOf with the layers ordered by height, lowest first.
RECURSIVE InsertByHeight(_, _)
InsertByHeight(c, layers) ==
    IF layers = <<>> THEN <<c>>
    ELSE IF c.height < Head(layers).height THEN <<c>> \o layers
    ELSE <<Head(layers)>> \o InsertByHeight(c, Tail(layers))

RECURSIVE SortByHeight(_)
SortByHeight(layers) ==
    IF layers = <<>> THEN <<>>
    ELSE InsertByHeight(Head(layers), SortByHeight(Tail(layers)))

CloudsOf_LowestFirst(s) == SortByHeight(TafClouds(s, 1))

\* clouds = []; for match in cloud_pattern.finditer(s): clouds.append(...)
CloudsOf(s) == TafClouds(s, 1)

parse_taf_conditions(conditions) ==
    LET up == Upper(conditions)
        cavok == Contains(up, "CAVOK")
        m4 == MetersSearch(up)
    IN  [cavok |-> cavok,
         wind |-> WindSearch(up),
         visibility |-> IF ~cavok /\ IsSet(m4) THEN Some(ParseInt(Val(m4)))
                        ELSE None,
         phenomena |-> PhenomenaIn(up, TafPhenomenaCodes),
         clouds |-> CloudsOf(up)]

-----------------------------------------------------------------------------
(* The period patterns shared by web_app.decode_taf_detailed and           *)
(* METAR.describe_taf.                                                     *)

\* (\d{4})/(\d{4}) at position i.
RangeAt(s, i) ==
    /\ i + 8 <= Len(s)
    /\ AllDigits(s, i, i + 3)
    /\ Ch(s, i + 4) = "/"
    /\ AllDigits(s, i + 5, i + 8)

\* The lookahead \s+(?:TEMPO|BECMG|FM|PROB\d+) at position q; with fm6 the
\* FM alternative is FM\d{6} (the lookahead of describe_taf's fm_pattern).
KeywordAhead(s, q, fm6) ==
    LET r == SpaceRunEnd(s, q)
    IN  /\ r > q
        /\ \/ LitAt(s, r, "TEMPO")
           \/ LitAt(s, r, "BECMG")
           \/ LitAt(s, r, "FM") /\ (fm6 => (r + 7 <= Len(s) /\ AllDigits(s, r + 2, r + 7)))
           \/ LitAt(s, r, "PROB") /\ IsDigit(Ch(s, r + 4))

\* Where the lazy .*? started at p stops: the first position at which the
\* lookahead (keyword ahead, or $) succeeds.
RECURSIVE LazyEnd(_, _, _)
LazyEnd(s, p, fm6) ==
    IF p > Len(s) \/ KeywordAhead(s, p, fm6) \/ AtEnd(s, p) THEN p
    ELSE LazyEnd(s, p + 1, fm6)

\* The conditions group: (.*?) in web_app (strict = FALSE), ([^\s]+.*?) in
\* describe_taf (strict = TRUE), started after the blanks at a.  The result
\* is <<first, last>> of the group, or None when the group cannot match.
CondSpan(s, a, strict, fm6) ==
    LET p == SpaceRunEnd(s, a)
    IN  IF p = a \/ (strict /\ p > Len(s)) THEN None
        ELSE Some(<<p, LazyEnd(s, IF strict THEN TokenEnd(s, p) ELSE p, fm6) - 1>>)

Period(kind, hdr, period, prob, tempo, s, span) ==
    [kind |-> kind, hdr |-> hdr, period |-> period, probability |-> prob,
     tempo |-> tempo, first |-> span[1], last |-> span[2],
     conditions |-> Strip(Sub(s, span[1], span[2]))]

\* base_match: (\d{4}/\d{4})\s+<conditions> tried at position i.
BaseAt(s, i, strict) ==
    LET c == CondSpan(s, i + 9, strict, FALSE)
    IN  IF RangeAt(s, i) /\ IsSet(c)
        THEN Some(Period("BASE", i, Sub(s, i, i + 8), "", FALSE, s, Val(c)))
        ELSE None

BaseSearch(s, strict) ==
    LET I == {i \in 1..Len(s) : IsSet(BaseAt(s, i, strict))}
    IN  IF I = {} THEN None ELSE BaseAt(s, MinOf(I), strict)

\* TEMPO\s+(\d{4}/\d{4})\s+<conditions>, and the same with BECMG, at i.
ChangeAt(s, i, kw, strict) ==
    LET a == SpaceRunEnd(s, i + 5)
        c == CondSpan(s, a + 9, strict, FALSE)
    IN  IF LitAt(s, i, kw) /\ a > i + 5 /\ RangeAt(s, a) /\ IsSet(c)
        THEN Some(Period(kw, i, Sub(s, a, a + 8), "", FALSE, s, Val(c)))
        ELSE None

\* PROB(\d+)\s+(?:TEMPO\s+)?(\d{4}/\d{4})\s+<conditions> at i.
ProbAt(s, i, strict) ==
    LET e == DigitRunEnd(s, i + 4)
        a == SpaceRunEnd(s, e)
        t == SpaceRunEnd(s, a + 5)
        b == IF LitAt(s, a, "TEMPO") /\ t > a + 5 THEN t ELSE a
        c == CondSpan(s, b + 9, strict, FALSE)
    IN  IF LitAt(s, i, "PROB") /\ e > i + 4 /\ a > e /\ RangeAt(s, b) /\ IsSet(c)
        THEN Some(Period("PROB", i, Sub(s, b, b + 8), Sub(s, i + 4, e - 1),
                         Contains(Sub(s, i, Val(c)[2]), "TEMPO"), s, Val(c)))
        ELSE None

\* FM(\d{6})\s+([^\s]+.*?)(?=\s+(?:TEMPO|BECMG|FM\d{6}|PROB\d+)|$) at i.
FmAt(s, i) ==
    LET c == CondSpan(s, i + 8, TRUE, TRUE)
    IN  IF LitAt(s, i, "FM") /\ i + 7 <= Len(s) /\ AllDigits(s, i + 2, i + 7)
           /\ IsSet(c)
        THEN Some(Period("FM", i, Sub(s, i + 2, i + 7), "", FALSE, s, Val(c)))
        ELSE None

PatternAt(s, i, kind, strict) ==
    IF kind = "PROB" THEN ProbAt(s, i, strict)
    ELSE IF kind = "FM" THEN FmAt(s, i)
    ELSE ChangeAt(s, i, kind, strict)

\* re.finditer: the matches from left to right, each search resuming where
\* the previous match ended.
RECURSIVE FindIter(_, _, _, _)
FindIter(s, i, kind, strict) ==
    LET I == {j \in i..Len(s) : IsSet(PatternAt(s, j, kind, strict))}
    IN  IF I = {} THEN <<>>
        ELSE LET m == Val(PatternAt(s, MinOf(I), kind, strict))
             IN  <<m>> \o FindIter(s, m.last + 1, kind, strict)

-----------------------------------------------------------------------------
(* web_app.decode_taf_detailed                                             *)

\* A period entry: the parsed conditions with the period's own fields.
TafEntry(m) ==
    [kind |-> m.kind, hdr |-> m.hdr, first |-> m.first, last |-> m.last,
     period |-> m.period, probability |-> m.probability,
     text |-> m.conditions, parsed |-> parse_taf_conditions(m.conditions)]

RECURSIVE TafEntries(_)
TafEntries(ms) ==
    IF ms = <<>> THEN <<>> ELSE <<TafEntry(Head(ms))>> \o TafEntries(Tail(ms))

\* [A-Z]{4} at position i.
IcaoAt(s, i) ==
    /\ i + 3 <= Len(s)
    /\ \A k \in i..(i + 3) : Ch(s, k) \in UpperSet

\* r'\b([A-Z]{4})\s+(\d{6})Z\b' tried at position i: <<icao, time>>.
IcaoTimeAt(s, i) ==
    LET a == SpaceRunEnd(s, i + 4)
    IN  IF /\ WordBoundary(s, i)
           /\ IcaoAt(s, i)
           /\ a > i + 4
           /\ a + 6 <= Len(s)
           /\ AllDigits(s, a, a + 5)
           /\ Ch(s, a + 6) = "Z"
           /\ WordBoundary(s, a + 7)
        THEN Some(<<Sub(s, i, i + 3), Sub(s, a, a + 5)>>)
        ELSE None

IcaoTimeSearch(s) ==
    LET I == {i \in 1..Len(s) : IsSet(IcaoTimeAt(s, i))}
    IN  IF I = {} THEN None ELSE IcaoTimeAt(s, MinOf(I))

\* r'\b(\d{6})Z\s+(\d{4})/(\d{4})\b' tried at position i: <<from, to>>.
ValidAt(s, i) ==
    LET a == SpaceRunEnd(s, i + 7)
    IN  IF /\ WordBoundary(s, i)
           /\ i + 6 <= Len(s)
           /\ AllDigits(s, i, i + 5)
           /\ Ch(s, i + 6) = "Z"
           /\ a > i + 7
           /\ RangeAt(s, a)
           /\ WordBoundary(s, a + 9)
        THEN Some(<<Sub(s, a, a + 3), Sub(s, a + 5, a + 8)>>)
        ELSE None

ValidSearch(s) ==
    LET I == {i \in 1..Len(s) : IsSet(ValidAt(s, i))}
    IN  IF I = {} THEN None ELSE ValidAt(s, MinOf(I))

decode_taf_detailed(taf) ==
    LET taf_upper == Upper(taf)
        base_match == BaseSearch(taf_upper, FALSE)
    IN  [periods |-> <<>>,
         icao_time |-> IcaoTimeSearch(taf_upper),
         valid |-> ValidSearch(taf_upper),
         base_conditions |-> IF IsSet(base_match)
                             THEN Some(TafEntry(Val(base_match))) ELSE None,
         tempo_periods |-> TafEntries(FindIter(taf_upper, 1, "TEMPO", FALSE)),
         becmg_periods |-> TafEntries(FindIter(taf_upper, 1, "BECMG", FALSE)),
         prob_periods |-> TafEntries(FindIter(taf_upper, 1, "PROB", FALSE))]

-----------------------------------------------------------------------------
(* METAR.describe_taf: the header it prints and the period sections in the *)
(* order they are printed.                                                 *)

\* r'\b([A-Z]{4})\s+(\d{6})Z\s+(\d{4})/(\d{4})\b': <<icao, time, from, to>>.
TafHeaderSearch(s) ==
    LET I == {i \in 1..Len(s) :
                /\ IsSet(IcaoTimeAt(s, i))
                /\ IsSet(ValidAt(s, SpaceRunEnd(s, i + 4)))}
    IN  IF I = {} THEN None
        ELSE Some(Val(IcaoTimeAt(s, MinOf(I)))
                  \o Val(ValidAt(s, SpaceRunEnd(s, MinOf(I) + 4))))

describe_taf(taf) ==
    LET taf_upper == Upper(taf)
        base_match == BaseSearch(taf_upper, TRUE)
    IN  [header |-> TafHeaderSearch(taf_upper),
         sections |->
            (IF IsSet(base_match) THEN <<Val(base_match)>> ELSE <<>>)
            \o FindIter(taf_upper, 1, "TEMPO", TRUE)
            \o FindIter(taf_upper, 1, "BECMG", TRUE)
            \o FindIter(taf_upper, 1, "FM", TRUE)
            \o FindIter(taf_upper, 1, "PROB", TRUE)]

-----------------------------------------------------------------------------
(* The TAF machine: a raw forecast is assembled group by group, then one   *)
(* of the two TAF decoders is called on it.                                *)

\* Station, issue time and validity window.
TafHeader == "LFRN 151100Z 1512/1612"

TafGroups ==
    {"9999", "BKN008", "22015KT",
     "TEMPO 1514/1518", "BECMG 1518/1520", "FM151800",
     "PROB30 1520/1522", "PROB40 TEMPO 1520/1524"}

MetarIdle ==
    /\ metar_raw = None
    /\ parsed = None
    /\ score_call = None
    /\ weather = None
    /\ lite = None

\* Whole forecasts handed to the decoders as they are.
TafExample ==
    "LFRN 151100Z 1512/1612 26010KT 9999 SCT020 TEMPO 1514/1518 4000 SHRA BKN008 BECMG 1518/1520 22015KT"

InitTaf ==
    /\ \/ taf_raw = TafHeader /\ ntok = 0
       \/ taf_raw = TafExample /\ ntok = MaxTafGroups
    /\ phase = "input"
    /\ taf_decoded = None
    /\ taf_printed = None
    /\ MetarIdle
    /\ DetailIdle
    /\ RankIdle
    /\ CallsIdle
    /\ CacheIdle

AppendTafGroup(g) ==
    /\ phase = "input"
    /\ ntok < MaxTafGroups
    /\ taf_raw' = taf_raw \o " " \o g
    /\ ntok' = ntok + 1
    /\ UNCHANGED <<phase, taf_decoded, taf_printed,
                   metar_raw, parsed, score_call, weather, lite,
                   detailed, weather_data, sorted_weather,
                   call_log, weather_cache, written_by, now, calls, req>>

\* A call of web_app.decode_taf_detailed(taf_raw).
DecodeTafDetailed ==
    /\ phase = "input"
    /\ taf_decoded' = Some(decode_taf_detailed(taf_raw))
    /\ phase' = "decode_taf_detailed"
    /\ UNCHANGED <<taf_raw, ntok, taf_printed,
                   metar_raw, parsed, score_call, weather, lite,
                   detailed, weather_data, sorted_weather,
                   call_log, weather_cache, written_by, now, calls, req>>

\* A call of METAR.describe_taf(taf_raw).
DescribeTaf ==
    /\ phase = "input"
    /\ taf_printed' = Some(describe_taf(taf_raw))
    /\ phase' = "describe_taf"
    /\ UNCHANGED <<taf_raw, ntok, taf_decoded,
                   metar_raw, parsed, score_call, weather, lite,
                   detailed, weather_data, sorted_weather,
                   call_log, weather_cache, written_by, now, calls, req>>

NextTaf ==
    \/ \E g \in TafGroups : AppendTafGroup(g)
    \/ DecodeTafDetailed
    \/ DescribeTaf

SpecTaf == InitTaf /\ [][NextTaf]_vars

-----------------------------------------------------------------------------
(* Vocabulary of the properties: the whitespace-delimited groups of a      *)
(* report and what the specification calls a ceiling layer.                *)

RECURSIVE Groups(_)
Groups(s) ==
    LET a == SpaceRunEnd(s, 1)
        b == TokenEnd(s, a)
    IN  IF a > Len(s) THEN <<>>
        ELSE <<Sub(s, a, b - 1)>> \o Groups(Sub(s, b, Len(s)))

GroupsOf(raw) == Groups(Upper(Val(raw)))

HasCavok(raw) == IsSet(raw) /\ Contains(Upper(Val(raw)), "CAVOK")

\* A Broken, Overcast or VerticalVisibility layer: (BKN|OVC|VV)ddd(CB|TCU)?
LayerDigitsAt(g) ==
    IF LitAt(g, 1, "VV") THEN 3
    ELSE IF LitAt(g, 1, "BKN") \/ LitAt(g, 1, "OVC") THEN 4
    ELSE 0

IsCeilingGroup(g) ==
    LET p == LayerDigitsAt(g)
    IN  /\ p > 0
        /\ Len(g) >= p + 2
        /\ AllDigits(g, p, p + 2)
        /\ Sub(g, p + 3, Len(g)) \in {"", "CB", "TCU"}

LayerHeight(g) == ParseInt(Sub(g, LayerDigitsAt(g), LayerDigitsAt(g) + 2)) * 100

CeilingHeights(raw) ==
    {LayerHeight(GroupsOf(raw)[k]) :
        k \in {j \in 1..Len(GroupsOf(raw)) : IsCeilingGroup(GroupsOf(raw)[j])}}

Parsed == phase = "parse_metar_vfr"

Fetched == phase = "fetch_all_weather"

-----------------------------------------------------------------------------
(* C1: decoding never fails: for every non-empty raw METAR, malformed ones *)
(* such as a 1/0SM visibility included, parse_metar_vfr returns a result   *)
(* and raises no exception.                                                *)
C1_DecodingNeverRaises ==
    (Parsed /\ ~Falsy(metar_raw)) => Val(parsed).raised = "none"

C5_CeilingIsLowestLayer ==
    (Parsed /\ ~Falsy(metar_raw) /\ ~HasCavok(metar_raw)
        /\ Val(parsed).raised = "none")
    => Val(parsed).ceiling_ft =
          IF CeilingHeights(metar_raw) = {} THEN None
          ELSE Some(MinOf(CeilingHeights(metar_raw)))

(* C6: without CAVOK and with a visibility or a ceiling decoded (the       *)
(* absent one replaced by 10.0 sm / 10000 ft) the category is VFR (4) for  *)
(* vis >= 5 and ceiling >= 3000, else MVFR (3) for vis >= 3 and ceiling    *)
(* >= 1000, else IFR (2) for vis >= 1 and ceiling >= 500, else LIFR (1);   *)
(* every threshold is inclusive.                                           *)
C6_CategoryThresholds ==
    (/\ Fetched
     /\ Val(weather).raised = "none"
     /\ ~HasCavok(metar_raw)
     /\ IsSet(Val(weather).visibility_sm) \/ IsSet(Val(weather).ceiling_ft))
    => LET w == Val(weather)
           vis == IF IsSet(w.visibility_sm) THEN Val(w.visibility_sm)
                  ELSE 10 * 1000000
           ceil == IF IsSet(w.ceiling_ft) THEN Val(w.ceiling_ft) ELSE 10000
           vfr == vis >= 5 * 1000000 /\ ceil >= 3000
           mvfr == ~vfr /\ vis >= 3 * 1000000 /\ ceil >= 1000
           ifr == ~vfr /\ ~mvfr /\ vis >= 1 * 1000000 /\ ceil >= 500
           lifr == ~vfr /\ ~mvfr /\ ~ifr
       IN  /\ vfr => (w.flight_category = Some("VFR") /\ w.vfr_score = 4)
           /\ mvfr => (w.flight_category = Some("MVFR") /\ w.vfr_score = 3)
           /\ ifr => (w.flight_category = Some("IFR") /\ w.vfr_score = 2)
           /\ lifr => (w.flight_category = Some("LIFR") /\ w.vfr_score = 1)

\* Ceiling exactly 500 ft with visibility exactly 1 sm: classified IFR.
C6_Witness ==
    /\ Fetched
    /\ Val(weather).raised = "none"
    /\ Val(weather).ceiling_ft = Some(500)
    /\ Val(weather).visibility_sm = Some(1000000)
    /\ Val(weather).flight_category = Some("IFR")

(* C7: a report containing CAVOK, whatever other groups it holds, gets     *)
(* category CAVOK, score 5 and no ceiling (and decode_metar_raw reports    *)
(* cavok with no ceiling).                                                 *)
C7_CavokWins ==
    /\ (Fetched /\ HasCavok(metar_raw)) =>
          /\ Val(weather).raised = "none"
          /\ Val(weather).flight_category = Some("CAVOK")
          /\ Val(weather).vfr_score = 5
          /\ Val(weather).ceiling_ft = None
    /\ (phase = "decode_metar_raw" /\ HasCavok(metar_raw)) =>
          /\ Val(lite).cavok
          /\ Val(lite).ceiling_ft = None

\* CAVOK together with a cloud layer that would otherwise be a ceiling.
C7_Witness ==
    /\ Fetched
    /\ HasCavok(metar_raw)
    /\ CeilingHeights(metar_raw) # {}
    /\ Val(weather).vfr_score = 5

(* C8: with the raw text unavailable (None or empty) classification gives  *)
(* no visibility, no ceiling, no category and score 0 without raising, and *)
(* calculate_vfr_score returns 0 whatever category it is passed.           *)
C8_MissingReportIsUnknown ==
    Falsy(metar_raw) =>
        /\ Parsed => Val(parsed) = Returned(None, None, None)
        /\ Fetched =>
              /\ Val(weather).raised = "none"
              /\ Val(weather).visibility_sm = None
              /\ Val(weather).ceiling_ft = None
              /\ Val(weather).flight_category = None
              /\ Val(weather).vfr_score = 0
        /\ phase = "calculate_vfr_score" => Val(score_call).score = 0

\* A direct call with a known category and a missing report.
C8_Witness ==
    /\ phase = "calculate_vfr_score"
    /\ metar_raw = None
    /\ Val(score_call).flight_category = Some("CAVOK")
    /\ Val(score_call).score = 0

-----------------------------------------------------------------------------
(* Vocabulary of the TAF properties: the groups of the forecast text, the  *)
(* change-group headers among them, and the periods a decoder produced.    *)

TafText == Upper(taf_raw)

GroupStarts(s) ==
    {i \in 1..Len(s) : ~IsSpace(Ch(s, i)) /\ (i = 1 \/ IsSpace(Ch(s, i - 1)))}

GroupAt(s, i) == Sub(s, i, TokenEnd(s, i) - 1)

\* The start of the group after the one at i (Len(s) + 1 when it is the last).
NextGroup(s, i) == SpaceRunEnd(s, TokenEnd(s, i))

PrevGroups(s, i) == {j \in GroupStarts(s) : j < i}

IsProbGroup(g) == Len(g) = 6 /\ LitAt(g, 1, "PROB") /\ AllDigits(g, 5, 6)

IsFmGroup(g) == Len(g) = 8 /\ LitAt(g, 1, "FM") /\ AllDigits(g, 3, 8)

IsKeywordGroup(g) ==
    g \in {"TEMPO", "BECMG"} \/ IsProbGroup(g) \/ IsFmGroup(g)

\* Every occurrence of a change keyword.
KeywordStarts(s) == {i \in GroupStarts(s) : IsKeywordGroup(GroupAt(s, i))}

\* The TEMPO marker of a PROBnn TEMPO group opens no group of its own.
IsProbMarker(s, i) ==
    /\ GroupAt(s, i) = "TEMPO"
    /\ PrevGroups(s, i) # {}
    /\ IsProbGroup(GroupAt(s, CHOOSE j \in PrevGroups(s, i) :
                                 \A k \in PrevGroups(s, i) : k <= j))

HeaderStarts(s) == {i \in KeywordStarts(s) : ~IsProbMarker(s, i)}

\* The next change-group header after position i, or the end of the text.
NextHeader(s, i) ==
    IF {j \in HeaderStarts(s) : j > i} = {} THEN Len(s) + 1
    ELSE MinOf({j \in HeaderStarts(s) : j > i})

\* The end of the header validity window: the third group of the text.
WindowEnd(s) == TokenEnd(s, NextGroup(s, NextGroup(s, 1))) - 1

IsRangeGroup(g) == Len(g) = 9 /\ RangeAt(g, 1)

\* The last group of the header that starts at i: the FM group itself, else
\* the range that follows the keyword (after the TEMPO marker of a PROB).
HeaderLast(s, i) ==
    IF IsFmGroup(GroupAt(s, i)) THEN i
    ELSE IF IsProbGroup(GroupAt(s, i)) /\ GroupAt(s, NextGroup(s, i)) = "TEMPO"
    THEN NextGroup(s, NextGroup(s, i))
    ELSE NextGroup(s, i)

\* The header at i is complete and is followed by conditions of its own.
HasConditions(s, i) ==
    LET h == HeaderLast(s, i)
        c == NextGroup(s, h)
    IN  /\ IsFmGroup(GroupAt(s, i)) \/ IsRangeGroup(GroupAt(s, h))
        /\ c <= Len(s)
        /\ ~IsKeywordGroup(GroupAt(s, c))

\* A forecast whose base and every change group carry conditions.
WellFormedTaf(s) ==
    /\ WindowEnd(s) < Len(s)
    /\ ~IsKeywordGroup(GroupAt(s, SpaceRunEnd(s, WindowEnd(s) + 1)))
    /\ \A i \in HeaderStarts(s) : HasConditions(s, i)

FmGroupStarts(s) == {i \in HeaderStarts(s) : IsFmGroup(GroupAt(s, i))}

Proj(e) ==
    [kind |-> e.kind, hdr |-> e.hdr, first |-> e.first, last |-> e.last,
     period |-> e.period, conditions |-> e.text]

RECURSIVE ProjAll(_)
ProjAll(es) == IF es = <<>> THEN <<>> ELSE <<Proj(Head(es))>> \o ProjAll(Tail(es))

ProjPrinted(m) ==
    [kind |-> m.kind, hdr |-> m.hdr, first |-> m.first, last |-> m.last,
     period |-> m.period, conditions |-> m.conditions]

RECURSIVE ProjPrintedAll(_)
ProjPrintedAll(ms) ==
    IF ms = <<>> THEN <<>>
    ELSE <<ProjPrinted(Head(ms))>> \o ProjPrintedAll(Tail(ms))

\* The periods of the decoder that ran, in the order it produced them.
Produced ==
    IF phase = "decode_taf_detailed"
    THEN LET d == Val(taf_decoded)
         IN  ProjAll((IF IsSet(d.base_conditions) THEN d.base_conditions ELSE <<>>)
                     \o d.periods \o d.tempo_periods \o d.becmg_periods
                     \o d.prob_periods)
    ELSE IF phase = "describe_taf"
    THEN ProjPrintedAll(Val(taf_printed).sections)
    ELSE <<>>

(* C3: the periods are produced in the textual order of their headers,     *)
(* whatever their kind; the condition spans of two periods never overlap,  *)
(* and each period's conditions are exactly the text from its header to    *)
(* the next recognized header or the end of the report.  Stated for the    *)
(* forecasts whose base and change groups all carry conditions.            *)
C3_TextualOrderNoOverlap ==
    WellFormedTaf(TafText) =>
        /\ phase = "describe_taf" =>
              \A j, k \in 1..Len(Produced) :
                  j < k => Produced[j].hdr < Produced[k].hdr
        /\ \A j, k \in 1..Len(Produced) :
              j # k => \/ Produced[j].last < Produced[k].first
                       \/ Produced[k].last < Produced[j].first
        /\ \A k \in 1..Len(Produced) :
              Produced[k].conditions =
                  Strip(Sub(TafText, Produced[k].first,
                            NextHeader(TafText, Produced[k].hdr) - 1))

(* C4: every change keyword is consumed once and yields one period: no     *)
(* keyword occurrence lies in the header of two produced periods, so a     *)
(* PROBnn TEMPO group yields its Prob period and no Tempo period.          *)
C4_KeywordConsumedOnce ==
    WellFormedTaf(TafText) =>
        \A i \in KeywordStarts(TafText) :
            Cardinality({k \in 1..Len(Produced) :
                Produced[k].hdr <= i /\ i < Produced[k].first}) <= 1

(* C9: the Base conditions are exactly the text between the header         *)
(* validity window and the first change keyword (or the end); they never   *)
(* hold a change keyword, also when the first keyword directly follows the *)
(* window.                                                                 *)
C9_BaseStopsAtFirstKeyword ==
    \A k \in 1..Len(Produced) :
        Produced[k].kind = "BASE" =>
            Produced[k].conditions =
                Strip(Sub(TafText, WindowEnd(TafText) + 1,
                          NextHeader(TafText, WindowEnd(TafText)) - 1))

(* C10: every FMddHHMM group with conditions yields one From period with   *)
(* its day/hour/minute and its own conditions up to the next keyword or    *)
(* the end; no FM group of the text is dropped from the decoded output.    *)
C10_EveryFmGroupYieldsFrom ==
    (WellFormedTaf(TafText) /\ phase \in {"decode_taf_detailed", "describe_taf"})
    =>  \A i \in FmGroupStarts(TafText) :
            Cardinality({k \in 1..Len(Produced) :
                /\ Produced[k].kind = "FM"
                /\ Produced[k].hdr = i
                /\ Produced[k].period = Sub(TafText, i + 2, i + 7)
                /\ Produced[k].conditions =
                      Strip(Sub(TafText, i + 8, NextHeader(TafText, i) - 1))}) = 1

-----------------------------------------------------------------------------
(* Vocabulary of the visibility properties: the groups of a report that    *)
(* are visibility candidates and the value each one stands for.            *)

\* A bare 4-digit group: visibility in meters.
IsMetersGroup(g) == Len(g) = 4 /\ AllDigits(g, 1, 4)

\* A statute-mile group n SM or n/d SM.
IsSmGroup(g) ==
    LET v == Sub(g, 1, Len(g) - 2)
        e1 == DigitRunEnd(v, 1)
    IN  /\ Len(g) >= 3
        /\ Sub(g, Len(g) - 1, Len(g)) = "SM"
        /\ e1 > 1
        /\ \/ e1 = Len(v) + 1
           \/ /\ Ch(v, e1) = "/"
              /\ e1 < Len(v)
              /\ DigitRunEnd(v, e1 + 1) = Len(v) + 1

IsVisibilityCandidate(g) == IsMetersGroup(g) \/ IsSmGroup(g)

\* The visibility a candidate group stands for, in millionths of a mile.
CandidateMicroSm(g) ==
    IF IsMetersGroup(g) THEN MetersToMicroSm(ParseInt(g))
    ELSE LET v == Sub(g, 1, Len(g) - 2)
         IN  IF Contains(v, "/")
             THEN MicroQuotient(ParseInt(SplitSlash(v)[1]),
                                ParseInt(SplitSlash(v)[2]))
             ELSE ParseInt(v) * 1000000

CandidateIndexes(raw) ==
    {k \in 1..Len(GroupsOf(raw)) : IsVisibilityCandidate(GroupsOf(raw)[k])}

\* A group joined by a slash that is not a statute-mile fraction, such as a
\* validity window ddHH/ddHH or a runway visual range Rdd/dddd.
IsSlashJoined(g) == Contains(g, "/") /\ ~IsSmGroup(g)

-----------------------------------------------------------------------------
(* C11: a 4-digit run is taken as the visibility in meters only when it is *)
(* a whole whitespace-delimited group: in a report with no statute-mile    *)
(* group, a decoded visibility is the value of some bare 4-digit group,    *)
(* never the half of a slash-joined group (ddHH/ddHH, Rdd/dddd) nor part   *)
(* of the observation time.                                                *)
C11_MetersOnlyFromWholeGroup ==
    (/\ Parsed
     /\ ~Falsy(metar_raw)
     /\ ~HasCavok(metar_raw)
     /\ Val(parsed).raised = "none"
     /\ \A k \in CandidateIndexes(metar_raw) : IsMetersGroup(GroupsOf(metar_raw)[k])
     /\ IsSet(Val(parsed).visibility_sm))
    => \E k \in CandidateIndexes(metar_raw) :
          Val(parsed).visibility_sm =
              Some(CandidateMicroSm(GroupsOf(metar_raw)[k]))

(* C12: the visibility is that of the first (leftmost) candidate group of  *)
(* the report, a bare 4-digit group or an n[/d]SM group; a later candidate *)
(* never overrides it; n/dSM stands for n/d miles and dddd for meters      *)
(* times 0.000621371.  Stated for the reports without slash-joined groups. *)
C12_FirstCandidateWins ==
    (/\ Parsed
     /\ ~Falsy(metar_raw)
     /\ ~HasCavok(metar_raw)
     /\ Val(parsed).raised = "none"
     /\ \A k \in 1..Len(GroupsOf(metar_raw)) : ~IsSlashJoined(GroupsOf(metar_raw)[k]))
    => Val(parsed).visibility_sm =
          IF CandidateIndexes(metar_raw) = {} THEN None
          ELSE Some(CandidateMicroSm(
                   GroupsOf(metar_raw)[MinOf(CandidateIndexes(metar_raw))]))

-----------------------------------------------------------------------------
(* C13: the forecast LFRN 151100Z 1512/1612 26010KT 9999 SCT020 TEMPO      *)
(* 1514/1518 4000 SHRA BKN008 BECMG 1518/1520 22015KT decodes to exactly   *)
(* three periods: Base (1512/1612, wind 260/10, visibility 9999, clouds    *)
(* [SCT020]), Tempo (1514/1518, visibility 4000, phenomena exactly [SHRA], *)
(* clouds [BKN008]) and Becmg (1518/1520, wind 220/15, no visibility, no   *)
(* clouds).                                                                *)
C13_ExampleThreePeriods ==
    (phase = "decode_taf_detailed" /\ taf_raw = TafExample) =>
       LET d == Val(taf_decoded)
           base == Val(d.base_conditions)
           tempo == d.tempo_periods[1]
           becmg == d.becmg_periods[1]
           layer(c, h) == [coverage |-> c, height |-> h, type |-> None]
       IN  /\ IsSet(d.base_conditions)
           /\ Len(d.tempo_periods) = 1
           /\ Len(d.becmg_periods) = 1
           /\ d.prob_periods = <<>>
           /\ base.period = "1512/1612"
           /\ base.parsed.wind =
                 Some([wind_dir |-> "260", wind_speed |-> 10, wind_gust |-> None])
           /\ base.parsed.visibility = Some(9999)
           /\ base.parsed.clouds = <<layer("SCT", 2000)>>
           /\ tempo.period = "1514/1518"
           /\ tempo.parsed.visibility = Some(4000)
           /\ tempo.parsed.phenomena = <<"SHRA">>
           /\ tempo.parsed.clouds = <<layer("BKN", 800)>>
           /\ becmg.period = "1518/1520"
           /\ becmg.parsed.wind =
                 Some([wind_dir |-> "220", wind_speed |-> 15, wind_gust |-> None])
           /\ becmg.parsed.visibility = None
           /\ becmg.parsed.clouds = <<>>

-----------------------------------------------------------------------------
(* web_app.decode_metar_detailed                                           *)

\* r'\b(\d{3})V(\d{3})\b' tried at position i.
WindVarAt(s, i) ==
    /\ WordBoundary(s, i)
    /\ i + 6 <= Len(s)
    /\ AllDigits(s, i, i + 2)
    /\ Ch(s, i + 3) = "V"
    /\ AllDigits(s, i + 4, i + 6)
    /\ WordBoundary(s, i + 7)

WindVarSearch(s) ==
    LET I == {i \in 1..Len(s) : WindVarAt(s, i)}
    IN  IF I = {} THEN None ELSE Some(Sub(s, MinOf(I), MinOf(I) + 6))

\* The codes decode_metar_detailed looks up by substring, in list order.
MetarPhenomenaCodes ==
    <<"TSRA", "TS", "+RA", "-RA", "RA", "SHRA", "SN", "FG", "BR", "DZ", "GR",
      "FZRA">>

TempVal_IgnoresM(t) == ParseInt(Sub(t, Len(t) - 1, Len(t)))

\* int(str.replace('M', '-')) of a temperature group M?dd.
TempVal(t) == IF Ch(t, 1) = "M" THEN 0 - ParseInt(Sub(t, 2, 3)) ELSE ParseInt(t)

\* r'\b(M?\d{2})/(M?\d{2})\b' tried at position i: <<group 1, group 2>>.
TempAt(s, i) ==
    LET a == IF Ch(s, i) = "M" THEN i + 1 ELSE i
        b == IF Ch(s, a + 3) = "M" THEN a + 4 ELSE a + 3
    IN  IF /\ WordBoundary(s, i)
           /\ a + 2 <= Len(s)
           /\ AllDigits(s, a, a + 1)
           /\ Ch(s, a + 2) = "/"
           /\ b + 1 <= Len(s)
           /\ AllDigits(s, b, b + 1)
           /\ WordBoundary(s, b + 2)
        THEN Some(<<Sub(s, i, a + 1), Sub(s, a + 3, b + 1)>>)
        ELSE None

TempSearch_LastMatch(s) ==
    LET I == {i \in 1..Len(s) : IsSet(TempAt(s, i))}
    IN  IF I = {} THEN None
        ELSE TempAt(s, CHOOSE m \in I : \A n \in I : n <= m)

TempSearch(s) ==
    LET I == {i \in 1..Len(s) : IsSet(TempAt(s, i))}
    IN  IF I = {} THEN None ELSE TempAt(s, MinOf(I))

\* r'\bQ(\d{4})\b' tried at position i.
QnhAt(s, i) ==
    /\ WordBoundary(s, i)
    /\ Ch(s, i) = "Q"
    /\ i + 4 <= Len(s)
    /\ AllDigits(s, i + 1, i + 4)
    /\ WordBoundary(s, i + 5)

QnhSearch(s) ==
    LET I == {i \in 1..Len(s) : QnhAt(s, i)}
    IN  IF I = {} THEN None ELSE Some(ParseInt(Sub(s, MinOf(I) + 1, MinOf(I) + 4)))

\* The keys of the returned dict; a key the code does not set is None.
decode_metar_detailed(metar) ==
    LET metar_upper == Upper(metar)
        cavok == Contains(metar_upper, "CAVOK")
        vis_match == MetersSearch(metar_upper)
        temp_match == TempSearch(metar_upper)
    IN  [icao_time |-> IcaoTimeSearch(metar_upper),
         valid |-> ValidSearch(metar_upper),
         auto |-> Contains(metar_upper, "AUTO"),
         wind |-> WindSearch(metar_upper),
         wind_var |-> WindVarSearch(metar_upper),
         cavok |-> cavok,
         visibility |-> IF ~cavok /\ IsSet(vis_match)
                        THEN Some(ParseInt(Val(vis_match))) ELSE None,
         phenomena |-> PhenomenaIn(metar_upper, MetarPhenomenaCodes),
         clouds |-> CloudsOf(metar_upper),
         temperature |-> IF IsSet(temp_match)
                         THEN Some(TempVal(Val(temp_match)[1])) ELSE None,
         dewpoint |-> IF IsSet(temp_match)
                      THEN Some(TempVal(Val(temp_match)[2])) ELSE None,
         spread |-> IF IsSet(temp_match)
                    THEN Some(TempVal(Val(temp_match)[1])
                              - TempVal(Val(temp_match)[2]))
                    ELSE None,
         qnh |-> QnhSearch(metar_upper)]

-----------------------------------------------------------------------------
(* METAR.describe_conditions: what each section of the description prints. *)

WxDescriptors == {"MI", "PR", "BC", "DR", "BL", "SH", "TS", "FZ"}

\* precip_map, obscuration_map and other_map: the phenomenon codes.
WxPhenomena ==
    {"DZ", "RA", "SN", "SG", "IC", "PL", "GR", "GS", "UP",
     "BR", "FG", "FU", "VA", "DU", "SA", "HZ",
     "PO", "SQ", "FC", "SS", "DS"}

\* intensity_map, looked up only for a non-empty intensity.
IntensityText(intensity) ==
    IF intensity = "+" THEN "Fort"
    ELSE IF intensity = "-" THEN "Faible"
    ELSE ""

\* wx_pattern r'\b([-+]?)(?:(MI|..|FZ))?(DZ|..|DS)\b' tried at position i.
\* The descriptor is tried first; without it the phenomenon starts at once.
WxAt(s, i) ==
    LET sign == Ch(s, i) \in {"-", "+"}
        a == IF sign THEN i + 1 ELSE i
        withDesc == /\ Sub(s, a, a + 1) \in WxDescriptors
                    /\ Sub(s, a + 2, a + 3) \in WxPhenomena
                    /\ WordBoundary(s, a + 4)
        bare == /\ Sub(s, a, a + 1) \in WxPhenomena
                /\ WordBoundary(s, a + 2)
        intensity == IF sign THEN Ch(s, i) ELSE ""
        entry(descriptor, phenomenon, e) ==
            [code |-> intensity \o descriptor \o phenomenon,
             intensity |-> IntensityText(intensity),
             descriptor |-> descriptor,
             phenomenon |-> phenomenon,
             end |-> e]
    IN  IF ~WordBoundary(s, i) THEN None
        ELSE IF withDesc
        THEN Some(entry(Sub(s, a, a + 1), Sub(s, a + 2, a + 3), a + 4))
        ELSE IF bare THEN Some(entry("", Sub(s, a, a + 1), a + 2))
        ELSE None

\* re.finditer(wx_pattern, metar_upper)
RECURSIVE WxFindIter(_, _)
WxFindIter(s, i) ==
    IF i > Len(s) THEN <<>>
    ELSE LET m == WxAt(s, i)
         IN  IF IsSet(m)
             THEN <<[code |-> Val(m).code, intensity |-> Val(m).intensity,
                     descriptor |-> Val(m).descriptor,
                     phenomenon |-> Val(m).phenomenon]>>
                  \o WxFindIter(s, Val(m).end)
             ELSE WxFindIter(s, i + 1)

\* cloud_pattern r'\b(FEW|SCT|BKN|OVC|VV)(\d{3})(CB|TCU)?\b' at position i:
\* the length of the coverage code, 0 when there is no match.
CloudVvAt(s, i) ==
    LET n == IF LitAt(s, i, "VV") THEN 2
             ELSE IF Sub(s, i, i + 2) \in CoverSet THEN 3 ELSE 0
        e == i + n + 3
        suf == IF LitAt(s, e, "CB") THEN 2 ELSE IF LitAt(s, e, "TCU") THEN 3 ELSE 0
    IN  IF /\ n > 0
           /\ WordBoundary(s, i)
           /\ e - 1 <= Len(s)
           /\ AllDigits(s, i + n, e - 1)
           /\ WordBoundary(s, e + suf)
        THEN n ELSE 0

RECURSIVE CloudVvFindIter(_, _)
CloudVvFindIter(s, i) ==
    IF i > Len(s) THEN <<>>
    ELSE LET n == CloudVvAt(s, i)
             e == i + n + 3
             suf == IF LitAt(s, e, "CB") THEN "CB"
                    ELSE IF LitAt(s, e, "TCU") THEN "TCU" ELSE ""
         IN  IF n > 0
             THEN <<[coverage |-> Sub(s, i, i + n - 1),
                     height |-> ParseInt(Sub(s, i + n, e - 1)) * 100,
                     type |-> IF suf = "" THEN None ELSE Some(suf)]>>
                  \o CloudVvFindIter(s, e + Len(suf))
             ELSE CloudVvFindIter(s, i + 1)

\* The SKC / CLR / NSC / NCD line, printed when no layer matched.
SkyClearOf(s) ==
    IF Contains(s, "CAVOK") THEN None
    ELSE IF Contains(s, "SKC") THEN Some("SKC")
    ELSE IF Contains(s, "CLR") THEN Some("CLR")
    ELSE IF Contains(s, "NSC") THEN Some("NSC")
    ELSE IF Contains(s, "NCD") THEN Some("NCD")
    ELSE None

\* rmk_match r'RMK\s+(.+)$' on a text of one line, tried at position i:
\* \s+ takes the whole run of blanks unless nothing would be left for (.+).
RemarksAt(s, i) ==
    LET p == SpaceRunEnd(s, i + 3)
    IN  IF ~LitAt(s, i, "RMK") \/ p = i + 3 THEN None
        ELSE IF p <= Len(s) THEN Some(Sub(s, p, Len(s)))
        ELSE IF p - (i + 3) >= 2 THEN Some(Sub(s, p - 1, Len(s)))
        ELSE None

RemarksOf(s) ==
    LET I == {i \in 1..Len(s) : IsSet(RemarksAt(s, i))}
    IN  IF I = {} THEN None ELSE RemarksAt(s, MinOf(I))

\* if visibility_sm / if ceiling_ft: None and zero print nothing.
Truthy(o) == IsSet(o) /\ Val(o) # 0

describe_conditions(metar, category, visibility_sm, ceiling_ft) ==
    LET metar_upper == Upper(metar)
        cavok == Contains(metar_upper, "CAVOK")
        wind_match == WindSearch(metar_upper)
        vis_match == MetersSearch(metar_upper)
        temp_match == TempSearch(metar_upper)
        clouds == CloudVvFindIter(metar_upper, 1)
    IN  [category |-> IF category \in {Some("CAVOK"), Some("VFR"), Some("MVFR"),
                                        Some("IFR"), Some("LIFR")}
                      THEN category ELSE None,
         visibility_sm |-> IF Truthy(visibility_sm) THEN visibility_sm ELSE None,
         ceiling_ft |-> IF Truthy(ceiling_ft) THEN ceiling_ft ELSE None,
         wind |-> wind_match,
         wind_var |-> IF IsSet(wind_match) THEN WindVarSearch(metar_upper)
                      ELSE None,
         visibility_code |-> IF IsSet(vis_match) /\ ~cavok THEN vis_match
                             ELSE IF cavok THEN Some("CAVOK") ELSE None,
         phenomena |-> WxFindIter(metar_upper, 1),
         clouds |-> clouds,
         sky_clear |-> IF clouds = <<>> THEN SkyClearOf(metar_upper) ELSE None,
         temperature |-> IF IsSet(temp_match)
                         THEN Some(TempVal(Val(temp_match)[1])) ELSE None,
         dewpoint |-> IF IsSet(temp_match)
                      THEN Some(TempVal(Val(temp_match)[2])) ELSE None,
         qnh |-> QnhSearch(metar_upper),
         remarks |-> IF Contains(metar_upper, "RMK") THEN RemarksOf(metar_upper)
                     ELSE None]

-----------------------------------------------------------------------------
(* weather.fetch_metar_tgftp: the fields extracted from the report line of *)
(* the station file.  The line is searched as received, not upper-cased.   *)

\* conv(v): a leading M negates the integer that follows it.
conv(v) == IF Ch(v, 1) = "M" THEN 0 - ParseInt(Sub(v, 2, Len(v))) ELSE ParseInt(v)

\* Groups 1, 2 and 4 of the wind match, kept as the strings they are.
TgftpWind(raw) ==
    LET I == {i \in 1..Len(raw) : IsSet(WindAt(raw, i))}
        i == MinOf(I)
        e == DigitRunEnd(raw, IF LitAt(raw, i, "VRB") THEN i + 3 ELSE i)
        wd == Sub(raw, i, i + 2)
    IN  IF I = {} THEN None
        ELSE Some([wind_dir_degrees |-> IF wd = "VRB" THEN None ELSE Some(wd),
                   wind_speed_kt |-> Sub(raw, i + 3, e - 1),
                   wind_gust_kt |-> IF Ch(raw, e) = "G"
                                    THEN Some(Sub(raw, e + 1, DigitRunEnd(raw, e + 1) - 1))
                                    ELSE None])

\* f"{meters * 0.000621371:.1f}": the miles rounded to tenths (no product of
\* a 4-digit integer falls on a half tenth).
MilesTenths(meters) == (MetersToMicroSm(meters) + 50000) \div 100000

\* The 4-digit group is looked for first, an SM group only without one.
TgftpVisibility(raw) ==
    LET m == MetersSearch(raw)
        sm == SmSearch(raw)
    IN  IF IsSet(m) THEN Some([tenths |-> MilesTenths(ParseInt(Val(m)))])
        ELSE IF IsSet(sm) THEN Some([text |-> Val(sm)])
        ELSE None

\* The dict built from the report line raw; a key the code does not set is
\* None.
fetch_metar_tgftp(raw) ==
    LET t == TempSearch(raw)
    IN  [raw_text |-> raw,
         wind |-> TgftpWind(raw),
         temp_c |-> IF IsSet(t) THEN Some(conv(Val(t)[1])) ELSE None,
         dewpoint_c |-> IF IsSet(t) THEN Some(conv(Val(t)[2])) ELSE None,
         visibility_statute_mi |-> TgftpVisibility(raw)]

-----------------------------------------------------------------------------
(* The detail machine: the report of a station is assembled group by       *)
(* group, then decoded in full by web_app.decode_metar_detailed or         *)
(* described by METAR.describe_conditions, or decoded by                   *)
(* weather.decode_metar_raw.                                               *)

DetailHeaders == {"LFRN 151200Z", "LFRA 151200Z"}

DetailGroups ==
    {"9999", "R27/0800", "27015KT", "+RA", "-RA", "RA", "SHRA", "FZFG",
     "BKN030", "FEW010CB", "OVC005", "VV002", "12/08", "M01/M02",
     "Q1015", "A2992", "11/16SM",
     "M00/M05", "17/M02", "1512/1612", "1/2SM", "VRB03G15KT", "Q0998"}

\* The decode route and the description are reached with a report only.
InitDetail ==
    /\ metar_raw \in {Some(h) : h \in DetailHeaders}
    /\ ntok = 0
    /\ phase = "input"
    /\ parsed = None
    /\ score_call = None
    /\ weather = None
    /\ lite = None
    /\ TafIdle
    /\ DetailIdle
    /\ RankIdle
    /\ CallsIdle
    /\ CacheIdle

AppendDetailGroup(g) ==
    /\ phase = "input"
    /\ ntok < MaxDetailTokens
    /\ metar_raw' = Some(Val(metar_raw) \o " " \o g)
    /\ ntok' = ntok + 1
    /\ UNCHANGED <<phase, parsed, score_call, weather, lite,
                   taf_raw, taf_decoded, taf_printed,
                   detailed, weather_data, sorted_weather,
                   call_log, weather_cache, written_by, now, calls, req>>

\* A call of web_app.decode_metar_detailed(weather.metar_raw).
DecodeMetarDetailed ==
    /\ phase = "input"
    /\ detailed' = Some(decode_metar_detailed(Val(metar_raw)))
    /\ phase' = "decode_metar_detailed"
    /\ UNCHANGED <<metar_raw, ntok, parsed, score_call, weather, lite,
                   taf_raw, taf_decoded, taf_printed,
                   weather_data, sorted_weather,
                   call_log, weather_cache, written_by, now, calls, req>>

\* describe_conditions on the fields of the station's Weather record.
DescribeConditions ==
    /\ phase = "input"
    /\ LET r == parse_metar_vfr(metar_raw)
       IN  /\ r.raised = "none"
           /\ detailed' = Some(describe_conditions(Val(metar_raw),
                                   r.flight_category, r.visibility_sm,
                                   r.ceiling_ft))
    /\ phase' = "describe_conditions"
    /\ UNCHANGED <<metar_raw, ntok, parsed, score_call, weather, lite,
                   taf_raw, taf_decoded, taf_printed,
                   weather_data, sorted_weather,
                   call_log, weather_cache, written_by, now, calls, req>>

\* fetch_metar_tgftp on a station file whose report line is the report.
FetchMetarTgftp ==
    /\ phase = "input"
    /\ detailed' = Some(fetch_metar_tgftp(Strip(Val(metar_raw))))
    /\ phase' = "fetch_metar_tgftp"
    /\ UNCHANGED <<metar_raw, ntok, parsed, score_call, weather, lite,
                   taf_raw, taf_decoded, taf_printed,
                   weather_data, sorted_weather,
                   call_log, weather_cache, written_by, now, calls, req>>

NextDetail ==
    \/ \E g \in DetailGroups : AppendDetailGroup(g)
    \/ DecodeMetarDetailed
    \/ DescribeConditions
    \/ DecodeMetarRaw
    \/ FetchMetarTgftp

SpecDetail == InitDetail /\ [][NextDetail]_vars

-----------------------------------------------------------------------------
(* Vocabulary of the properties of the detailed decoding: the groups of a  *)
(* report that are weather phenomena, cloud layers and pressures.          *)

\* Intensity prefix, optional 2-letter descriptor, 2-letter phenomenon code.
IsPhenomenonGroup(g) ==
    LET a == IF Ch(g, 1) \in {"+", "-"} THEN 2 ELSE 1
        rest == Sub(g, a, Len(g))
    IN  \/ rest \in WxPhenomena
        \/ /\ Len(rest) = 4
           /\ Sub(rest, 1, 2) \in WxDescriptors
           /\ Sub(rest, 3, 4) \in WxPhenomena

PhenomenonGroups(raw) == SelectSeq(GroupsOf(raw), IsPhenomenonGroup)

IntensityOfGroup(g) ==
    IF Ch(g, 1) = "+" THEN "Heavy"
    ELSE IF Ch(g, 1) = "-" THEN "Light"
    ELSE "Moderate"

\* The intensity a described phenomenon is printed with.
IntensityOfEntry(e) ==
    IF e.intensity = "Fort" THEN "Heavy"
    ELSE IF e.intensity = "Faible" THEN "Light"
    ELSE "Moderate"

RECURSIVE IsSubseq(_, _)
IsSubseq(a, b) ==
    IF a = <<>> THEN TRUE
    ELSE IF b = <<>> THEN FALSE
    ELSE IF Head(a) = Head(b) THEN IsSubseq(Tail(a), Tail(b))
    ELSE IsSubseq(a, Tail(b))

\* A cloud layer group of the decoders: (FEW|SCT|BKN|OVC)ddd(CB|TCU)?
IsCloudGroup(g) ==
    /\ Sub(g, 1, 3) \in {"FEW", "SCT", "BKN", "OVC"}
    /\ Len(g) >= 6
    /\ AllDigits(g, 4, 6)
    /\ Sub(g, 7, Len(g)) \in {"", "CB", "TCU"}

CloudGroups(raw) == SelectSeq(GroupsOf(raw), IsCloudGroup)

RECURSIVE JoinComma(_)
JoinComma(gs) ==
    IF gs = <<>> THEN ""
    ELSE IF Len(gs) = 1 THEN Head(gs)
    ELSE Head(gs) \o "," \o JoinComma(Tail(gs))

\* A pressure group: Qdddd (hPa) or Adddd (inches x 100).
IsPressureGroup(g) ==
    /\ Len(g) = 5
    /\ Ch(g, 1) \in {"Q", "A"}
    /\ AllDigits(g, 2, 5)

PressureGroups(raw) == SelectSeq(GroupsOf(raw), IsPressureGroup)

Detailed == phase = "decode_metar_detailed"

Described == phase = "describe_conditions"

-----------------------------------------------------------------------------
(* C14: a weather phenomenon is reported only for a whole group that       *)
(* matches the phenomenon grammar, once per group and in textual order:    *)
(* letters inside another group (the RA of LFRA, of SHRA) never give an    *)
(* entry of their own.                                                     *)
C14_PhenomenaAreWholeGroups ==
    Detailed => IsSubseq(Val(detailed).phenomena, PhenomenonGroups(metar_raw))

(* C15: the intensity of a described phenomenon follows the prefix of its  *)
(* group, + Heavy, - Light, none Moderate, and the code reported is the    *)
(* whole group, prefix included.                                           *)
C15_IntensityFollowsPrefix ==
    Described =>
       LET ph == Val(detailed).phenomena
           gs == PhenomenonGroups(metar_raw)
       IN  /\ Len(ph) = Len(gs)
           /\ \A k \in 1..Len(gs) :
                 /\ ph[k].code = gs[k]
                 /\ IntensityOfEntry(ph[k]) = IntensityOfGroup(gs[k])

C20_InchesPressureAccepted ==
    ((Detailed \/ Described) /\ PressureGroups(metar_raw) # <<>>) =>
       LET g == Head(PressureGroups(metar_raw))
       IN  /\ IsSet(Val(detailed).qnh)
           /\ Ch(g, 1) = "Q" => Val(detailed).qnh = Some(ParseInt(Sub(g, 2, 5)))

-----------------------------------------------------------------------------
\* The score the specification gives each category.
ScoreOfCategory(fc) ==
    IF fc = Some("CAVOK") THEN 5
    ELSE IF fc = Some("VFR") THEN 4
    ELSE IF fc = Some("MVFR") THEN 3
    ELSE IF fc = Some("IFR") THEN 2
    ELSE IF fc = Some("LIFR") THEN 1
    ELSE 0

(* C16: the score is a total, order-preserving map of the categories onto  *)
(* 0..5: CAVOK 5 > VFR 4 > MVFR 3 > IFR 2 > LIFR 1 > Unknown 0; it is      *)
(* always an integer in 0..5, and 0 for any value outside the five known   *)
(* categories.                                                             *)
C16_ScoreOrdersCategories ==
    /\ phase = "calculate_vfr_score" =>
          /\ Val(score_call).score \in 0..5
          /\ ~Falsy(metar_raw) =>
                Val(score_call).score = ScoreOfCategory(Val(score_call).flight_category)
    /\ (Fetched /\ Val(weather).raised = "none") =>
          /\ Val(weather).vfr_score \in 0..5
          /\ ~Falsy(metar_raw) =>
                Val(weather).vfr_score = ScoreOfCategory(Val(weather).flight_category)

\* A value that is none of the five categories, with a report present.
C16_Witness ==
    /\ phase = "calculate_vfr_score"
    /\ ~Falsy(metar_raw)
    /\ Val(score_call).flight_category = Some("UNKNOWN")
    /\ Val(score_call).score = 0

(* C18: verbatim retention: the raw text stored in the Weather record is   *)
(* the string handed to decoding, character for character; decoding upper- *)
(* cases a private copy only.                                              *)
C18_RawTextRetained ==
    (Fetched /\ Val(weather).raised = "none") =>
        Val(weather).metar_raw = metar_raw

\* A report with a lower-case group, decoded and stored as it was.
C18_Witness ==
    /\ Fetched
    /\ ~Falsy(metar_raw)
    /\ Upper(Val(metar_raw)) # Val(metar_raw)
    /\ IsSet(Val(weather).ceiling_ft)
    /\ Val(weather).metar_raw = metar_raw

-----------------------------------------------------------------------------
(* The ranking machine: fetch_all_weather builds the list of Weather       *)
(* records of the stations, then the list is ranked for display.           *)

\* What the provider's page may hold for a station: no report, an empty
\* text, a report from which nothing is decoded, and decodable reports.
StationReports ==
    {None, Some(""), Some("LFRN 151200Z"), Some("LFRN 151200Z CAVOK"),
     Some("LFRN 151200Z 9999"), Some("LFRN 151200Z 0800 BKN004"),
     Some("LFRN 151200Z 1/0SM")}

\* The Weather record of the k-th station of icao_list.
RECURSIVE WeatherList(_, _)
WeatherList(reports, k) ==
    IF k > Len(reports) THEN <<>>
    ELSE <<[icao |-> k] @@ WeatherOf(reports[k])>> \o WeatherList(reports, k + 1)

\* InsertByScore placing a record before the records of equal score.
RECURSIVE InsertByScore_BeforeEqual(_, _)
InsertByScore_BeforeEqual(w, ranked) ==
    IF ranked = <<>> THEN <<w>>
    ELSE IF Head(ranked).vfr_score > w.vfr_score
    THEN <<Head(ranked)>> \o InsertByScore_BeforeEqual(w, Tail(ranked))
    ELSE <<w>> \o ranked

\* A stable sort keeps a record behind the earlier records of equal score.
RECURSIVE InsertByScore(_, _)
InsertByScore(w, ranked) ==
    IF ranked = <<>> THEN <<w>>
    ELSE IF Head(ranked).vfr_score >= w.vfr_score
    THEN <<Head(ranked)>> \o InsertByScore(w, Tail(ranked))
    ELSE <<w>> \o ranked

\* sorted(weather_data, key=lambda w: w.vfr_score, reverse=True)
RECURSIVE SortedByScore(_)
SortedByScore(ws) ==
    IF ws = <<>> THEN <<>>
    ELSE InsertByScore(ws[Len(ws)], SortedByScore(SubSeq(ws, 1, Len(ws) - 1)))

InitRank ==
    /\ phase = "input"
    /\ ntok = 0
    /\ MetarIdle
    /\ TafIdle
    /\ DetailIdle
    /\ RankIdle
    /\ CallsIdle
    /\ CacheIdle

\* What fetch_all_weather leaves: the list of records, or nothing when a
\* station's report raised.
FetchOutcome(ws) ==
    IF \E k \in 1..Len(ws) : ws[k].raised # "none"
    THEN [phase |-> "fetch_raised", data |-> <<>>]
    ELSE [phase |-> "fetched", data |-> ws]

\* fetch_all_weather over the stations of icao_list.
FetchAllWeatherList(reports) ==
    /\ phase = "input"
    /\ \E o \in {FetchOutcome(WeatherList(reports, 1))} :
          /\ weather_data' = o.data
          /\ phase' = o.phase
    /\ UNCHANGED <<metar_raw, ntok, parsed, score_call, weather, lite,
                   taf_raw, taf_decoded, taf_printed, detailed, sorted_weather,
                   call_log, weather_cache, written_by, now, calls, req>>

\* display_ranked_table(weather_data, airports)
DisplayRankedTable ==
    /\ phase = "fetched"
    /\ sorted_weather' = Some(SortedByScore(weather_data))
    /\ phase' = "display_ranked_table"
    /\ UNCHANGED <<metar_raw, ntok, parsed, score_call, weather, lite,
                   taf_raw, taf_decoded, taf_printed, detailed, weather_data,
                   call_log, weather_cache, written_by, now, calls, req>>

\* The index route: the same ranking for the page.
Index ==
    /\ phase = "fetched"
    /\ sorted_weather' = Some(SortedByScore(weather_data))
    /\ phase' = "index"
    /\ UNCHANGED <<metar_raw, ntok, parsed, score_call, weather, lite,
                   taf_raw, taf_decoded, taf_printed, detailed, weather_data,
                   call_log, weather_cache, written_by, now, calls, req>>

NextRank ==
    \/ \E n \in 0..MaxStations :
          \E reports \in [1..n -> StationReports] : FetchAllWeatherList(reports)
    \/ DisplayRankedTable
    \/ Index

SpecRank == InitRank /\ [][NextRank]_vars

-----------------------------------------------------------------------------
(* Vocabulary of the ranking property.                                     *)

Ranked == phase \in {"display_ranked_table", "index"}

\* The records carry distinct station indexes, so sets compare the lists.
IsPermutation(a, b) ==
    /\ Len(a) = Len(b)
    /\ {a[k] : k \in 1..Len(a)} = {b[k] : k \in 1..Len(b)}

NonIncreasingScore(r) ==
    \A i, j \in 1..Len(r) : i < j => r[i].vfr_score >= r[j].vfr_score

\* Stations of equal score keep the order of the input list.
TiesKeepInputOrder(r) ==
    \A i, j \in 1..Len(r) :
        (i < j /\ r[i].vfr_score = r[j].vfr_score) => r[i].icao < r[j].icao

ReportMissing(w) == Falsy(w.metar_raw)

HasCategory(w) == IsSet(w.flight_category)

MissingAfterDecoded(r) ==
    \A i, j \in 1..Len(r) :
        (ReportMissing(r[i]) /\ HasCategory(r[j])) => j < i

MissingAfterEveryReport(r) ==
    \A i, j \in 1..Len(r) :
        (ReportMissing(r[i]) /\ ~ReportMissing(r[j])) => j < i

-----------------------------------------------------------------------------
-----------------------------------------------------------------------------
(* Vocabulary of the temperature property.                                 *)

\* A whole group [M]dd/[M]dd.
IsTemperatureGroup(g) ==
    LET a == IF Ch(g, 1) = "M" THEN 2 ELSE 1
        b == IF Ch(g, a + 3) = "M" THEN a + 4 ELSE a + 3
    IN  /\ Len(g) = b + 1
        /\ AllDigits(g, a, a + 1)
        /\ Ch(g, a + 2) = "/"
        /\ AllDigits(g, b, b + 1)

TemperatureGroups(raw) == SelectSeq(GroupsOf(raw), IsTemperatureGroup)

\* The signed value of the half of a temperature group that starts at a.
SignedHalf(g, a) ==
    IF Ch(g, a) = "M" THEN 0 - ParseInt(Sub(g, a + 1, a + 2))
    ELSE ParseInt(Sub(g, a, a + 1))

TemperatureOf(g) == SignedHalf(g, 1)

DewpointOf(g) == SignedHalf(g, IF Ch(g, 1) = "M" THEN 5 ELSE 4)

TgftpFetched == phase = "fetch_metar_tgftp"

(* C21: a group [M]dd/[M]dd is decoded half by half as signed integers, a  *)
(* leading M meaning negative (M05 = -5, M00 = 0, 17 = 17), and the spread *)
(* is temperature minus dewpoint; a report without such a group has no     *)
(* temperature: the halves of a validity window, of a runway visual range  *)
(* or of an SM fraction are never taken for one.                           *)
C21_SignedHalvesOfTemperatureGroup ==
    LET gs == TemperatureGroups(metar_raw)
        Pairs == {<<TemperatureOf(gs[k]), DewpointOf(gs[k])>> : k \in 1..Len(gs)}
    IN  /\ Detailed =>
              LET d == Val(detailed)
              IN  IF gs = <<>>
                  THEN d.temperature = None /\ d.dewpoint = None /\ d.spread = None
                  ELSE /\ <<Val(d.temperature), Val(d.dewpoint)>> \in Pairs
                       /\ Val(d.spread) = Val(d.temperature) - Val(d.dewpoint)
        /\ TgftpFetched =>
              LET d == Val(detailed)
              IN  IF gs = <<>>
                  THEN d.temp_c = None /\ d.dewpoint_c = None
                  ELSE <<Val(d.temp_c), Val(d.dewpoint_c)>> \in Pairs

\* A validity window ahead of the group M00/M05: 0, -5, spread 5.
C21_Witness ==
    /\ Detailed
    /\ Len(GroupsOf(metar_raw)) = 4
    /\ GroupsOf(metar_raw)[3] = "1512/1612"
    /\ GroupsOf(metar_raw)[4] = "M00/M05"
    /\ Val(detailed).temperature = Some(0)
    /\ Val(detailed).dewpoint = Some(0 - 5)
    /\ Val(detailed).spread = Some(5)

-----------------------------------------------------------------------------
(* Vocabulary of the singular groups of a report.                          *)

\* A whole group (ddd|VRB)dd[d][Gdd[d]]KT.
IsWindGroup(g) ==
    LET e == DigitRunEnd(g, IF LitAt(g, 1, "VRB") THEN 4 ELSE 1)
        k == IF Ch(g, e) = "G" THEN DigitRunEnd(g, e + 1) ELSE e
    IN  /\ LitAt(g, 1, "VRB") \/ AllDigits(g, 1, 3)
        /\ (e - 4) \in {2, 3}
        /\ Ch(g, e) = "G" => (k - e - 1) \in {2, 3}
        /\ Sub(g, k, Len(g)) = "KT"

WindGroups(raw) == SelectSeq(GroupsOf(raw), IsWindGroup)

WindSpeedOf(g) ==
    ParseInt(Sub(g, 4, DigitRunEnd(g, IF LitAt(g, 1, "VRB") THEN 4 ELSE 1) - 1))

WindGustOf(g) ==
    LET e == DigitRunEnd(g, IF LitAt(g, 1, "VRB") THEN 4 ELSE 1)
    IN  IF Ch(g, e) = "G" THEN Some(ParseInt(Sub(g, e + 1, Len(g) - 2))) ELSE None

\* The pressure groups the decoder has a pattern for.
IsQnhGroup(g) == IsPressureGroup(g) /\ Ch(g, 1) = "Q"

QnhGroups(raw) == SelectSeq(GroupsOf(raw), IsQnhGroup)

-----------------------------------------------------------------------------
(* The call machine: parse_metar_vfr and calculate_vfr_score called one    *)
(* after the other, in any order and on any inputs, as the loop of         *)
(* fetch_all_weather and the routes do.  Each call and what it returned is *)
(* logged.                                                                 *)

CallReports ==
    {None, Some("LFRN 151200Z 9999"), Some("lfrn 151200z 0800 bkn004"),
     Some("LFRN 151200Z CAVOK"), Some("LFRN 151200Z 1/0SM")}

CallCategories == {None, Some("CAVOK"), Some("LIFR")}

InitCalls ==
    /\ metar_raw = None
    /\ ntok = 0
    /\ phase = "input"
    /\ parsed = None
    /\ score_call = None
    /\ weather = None
    /\ lite = None
    /\ TafIdle
    /\ DetailIdle
    /\ RankIdle
    /\ CallsIdle
    /\ CacheIdle

\* visibility_sm, ceiling_ft, flight_category = parse_metar_vfr(raw)
CallParseMetarVfr(raw) ==
    /\ Len(call_log) < MaxCalls
    /\ call_log' = Append(call_log,
                      [fn |-> "parse_metar_vfr", args |-> <<raw>>,
                       result |-> parse_metar_vfr(raw)])
    /\ UNCHANGED <<metar_raw, ntok, phase, parsed, score_call, weather, lite,
                   taf_raw, taf_decoded, taf_printed,
                   detailed, weather_data, sorted_weather,
                   weather_cache, written_by, now, calls, req>>

\* vfr_score = calculate_vfr_score(flight_category, raw)
CallCalculateVfrScore(fc, raw) ==
    /\ Len(call_log) < MaxCalls
    /\ call_log' = Append(call_log,
                      [fn |-> "calculate_vfr_score", args |-> <<fc, raw>>,
                       result |-> calculate_vfr_score(fc, raw)])
    /\ UNCHANGED <<metar_raw, ntok, phase, parsed, score_call, weather, lite,
                   taf_raw, taf_decoded, taf_printed,
                   detailed, weather_data, sorted_weather,
                   weather_cache, written_by, now, calls, req>>

NextCalls ==
    \/ \E raw \in CallReports : CallParseMetarVfr(raw)
    \/ \E fc \in CallCategories, raw \in CallReports : CallCalculateVfrScore(fc, raw)

SpecCalls == InitCalls /\ [][NextCalls]_vars

-----------------------------------------------------------------------------
(* The cache machine: requests served by web_app.get_weather_data.  Each   *)
(* request thread runs the function statement by statement; the threads    *)
(* share weather_cache and switch between any two statements.              *)

\* Seconds added by one tick of the clock; the cache is valid 1800 s.
TickSeconds == 900

CacheValidity == 1800

\* The lists load_brittany_airports can return from the airports file.
AirportLists == {<<>>, <<"LFRN">>}

\* What the report page gives for one station.
FetchReports == {None, Some("LFRN 151200Z 9999"), Some("LFRN 151200Z 1/0SM")}

\* The routes: '/' (and the other pages, which call get_weather_data()
\* alike) and '/api/refresh'.
Routes == {"index", "api_refresh"}

\* The request threads of the server, and those that serve requests.
ThreadIds == 1..MaxThreads

Threads == {t \in DOMAIN req : req[t].pc # "absent"}

\* The locals of a request thread; none of them is set before its statement.
\* entry and entered_at keep the cache and the time found on entering
\* get_weather_data.
NewRequest(id, route) ==
    [id |-> id, route |-> route, force_refresh |-> (route = "api_refresh"),
     pc |-> "check",
     entry |-> weather_cache, entered_at |-> now,
     airports |-> None, session |-> None, weather_data |-> None,
     login |-> "none", fetch |-> "none",
     outcome |-> "none",
     ret_data |-> None, ret_airports |-> None,
     ret_by |-> [data |-> 0, airports |-> 0],
     response |-> None]

NoRequest ==
    [id |-> 0, route |-> "none", force_refresh |-> FALSE,
     pc |-> "idle",
     entry |-> [data |-> None, airports |-> None, session |-> None,
                last_update |-> None],
     entered_at |-> 0,
     airports |-> None, session |-> None, weather_data |-> None,
     login |-> "none", fetch |-> "none",
     outcome |-> "none",
     ret_data |-> None, ret_airports |-> None,
     ret_by |-> [data |-> 0, airports |-> 0],
     response |-> None]

\* if weather_cache['data']: None and the empty list are both false.
DataTruthy(data) == IsSet(data) /\ Val(data) # <<>>

\* The validity test with the limit itself counted as valid.
CacheFresh_Inclusive ==
    /\ IsSet(weather_cache.data)
    /\ IsSet(weather_cache.last_update)
    /\ now - Val(weather_cache.last_update) <= CacheValidity

\* (datetime.now() - last_update).total_seconds() < 1800
CacheFresh ==
    /\ IsSet(weather_cache.data)
    /\ IsSet(weather_cache.last_update)
    /\ now - Val(weather_cache.last_update) < CacheValidity

CacheInit(n) ==
    /\ metar_raw = None
    /\ ntok = 0
    /\ phase = "input"
    /\ parsed = None
    /\ score_call = None
    /\ weather = None
    /\ lite = None
    /\ TafIdle
    /\ DetailIdle
    /\ RankIdle
    /\ CallsIdle
    /\ weather_cache = [data |-> None, airports |-> None, session |-> None,
                        last_update |-> None]
    /\ written_by = [data |-> 0, airports |-> 0, last_update |-> 0]
    /\ now = 0
    /\ calls = 0
    /\ req = [t \in ThreadIds |->
                 IF t <= n THEN NoRequest ELSE [NoRequest EXCEPT !.pc = "absent"]]

\* Requests served one at a time.
InitCache == CacheInit(1)

\* All the request threads serve (the server of app.run is threaded).
InitThreads == CacheInit(MaxThreads)

decodeVars == <<metar_raw, ntok, phase, parsed, score_call, weather, lite,
                taf_raw, taf_decoded, taf_printed,
                detailed, weather_data, sorted_weather, call_log>>

\* datetime.now() moves on between any two statements.
Tick ==
    /\ now < MaxTicks * TickSeconds
    /\ now' = now + TickSeconds
    /\ UNCHANGED <<decodeVars, weather_cache, written_by, calls, req>>

\* A request arrives on a route and its thread enters get_weather_data.
Request(t, route) ==
    /\ req[t].pc \in {"idle", "done"}
    /\ calls < MaxRequests
    /\ calls' = calls + 1
    /\ req' = [req EXCEPT ![t] = NewRequest(calls + 1, route)]
    /\ UNCHANGED <<decodeVars, weather_cache, written_by, now>>

\* The test of the cache: valid for less than 30 minutes and not forced.
CheckCache(t) ==
    /\ req[t].pc = "check"
    /\ req' = [req EXCEPT ![t].pc =
                  IF ~req[t].force_refresh /\ CacheFresh
                  THEN "read_data" ELSE "load_airports",
               ![t].outcome =
                  IF ~req[t].force_refresh /\ CacheFresh
                  THEN "cached" ELSE "none",
               ![t].entry = weather_cache,
               ![t].entered_at = now]
    /\ UNCHANGED <<decodeVars, weather_cache, written_by, now, calls>>

\* return weather_cache['data'], weather_cache['airports']: the first item.
ReadData(t) ==
    /\ req[t].pc = "read_data"
    /\ req' = [req EXCEPT ![t].pc = "read_airports",
                          ![t].ret_data = weather_cache.data,
                          ![t].ret_by.data = written_by.data]
    /\ UNCHANGED <<decodeVars, weather_cache, written_by, now, calls>>

\* ... and the second item; the function returns.
ReadAirports(t) ==
    /\ req[t].pc = "read_airports"
    /\ req' = [req EXCEPT ![t].pc = "respond",
                          ![t].ret_airports = weather_cache.airports,
                          ![t].ret_by.airports = written_by.airports]
    /\ UNCHANGED <<decodeVars, weather_cache, written_by, now, calls>>

\* airports = load_brittany_airports(): a list, or an exception (the file
\* cannot be downloaded or read).
LoadAirports(t) ==
    /\ req[t].pc = "load_airports"
    /\ \/ \E a \in AirportLists :
             req' = [req EXCEPT ![t].pc = "session", ![t].airports = Some(a)]
       \/ req' = [req EXCEPT ![t].pc = "except"]
    /\ UNCHANGED <<decodeVars, weather_cache, written_by, now, calls>>

\* The session test sending every refresh to the login.
CheckSession_AlwaysLogin(t) ==
    /\ req[t].pc = "session"
    /\ req' = [req EXCEPT ![t].pc = "login",
                          ![t].session = weather_cache.session]
    /\ UNCHANGED <<decodeVars, weather_cache, written_by, now, calls>>

\* if weather_cache['session'] is None: ... else: session = the cached one.
CheckSession(t) ==
    /\ req[t].pc = "session"
    /\ req' = [req EXCEPT ![t].pc =
                  IF weather_cache.session = None THEN "login" ELSE "fetch",
               ![t].session = weather_cache.session]
    /\ UNCHANGED <<decodeVars, weather_cache, written_by, now, calls>>

\* get_credentials and login_meteo_fr on a new session: the session is
\* cached when the login succeeds, an exception is raised when it fails.
Login(t) ==
    /\ req[t].pc = "login"
    /\ \/ /\ req' = [req EXCEPT ![t].pc = "fetch", ![t].login = "ok",
                                ![t].session = Some(req[t].id)]
          /\ weather_cache' = [weather_cache EXCEPT !.session = Some(req[t].id)]
       \/ /\ req' = [req EXCEPT ![t].pc = "except", ![t].login = "failed"]
          /\ UNCHANGED weather_cache
    /\ UNCHANGED <<decodeVars, written_by, now, calls>>

\* The reports of the stations: what the page holds, or (None, None) for
\* every station when the bulk request failed.
ReportsOf(net, page) ==
    IF net = "ok" THEN page ELSE [k \in DOMAIN page |-> None]

\* The locals after fetch_all_weather returned or raised.
AfterFetch(r, net, o) ==
    IF o.phase = "fetch_raised"
    THEN [r EXCEPT !.pc = "except", !.fetch = "raised"]
    ELSE [r EXCEPT !.pc = "write_data", !.fetch = net,
                   !.weather_data = Some(o.data)]

\* weather_data = fetch_all_weather(session, airports)
FetchWeather(t) ==
    /\ req[t].pc = "fetch"
    /\ \E net \in {"ok", "error"} :
       \E page \in [1..Len(Val(req[t].airports)) -> FetchReports] :
       \E o \in {FetchOutcome(WeatherList(ReportsOf(net, page), 1))} :
          req' = [req EXCEPT ![t] = AfterFetch(req[t], net, o)]
    /\ UNCHANGED <<decodeVars, weather_cache, written_by, now, calls>>

\* weather_cache['data'] = weather_data
WriteData(t) ==
    /\ req[t].pc = "write_data"
    /\ weather_cache' = [weather_cache EXCEPT !.data = req[t].weather_data]
    /\ written_by' = [written_by EXCEPT !.data = req[t].id]
    /\ req' = [req EXCEPT ![t].pc = "write_airports"]
    /\ UNCHANGED <<decodeVars, now, calls>>

\* weather_cache['airports'] = airports
WriteAirports(t) ==
    /\ req[t].pc = "write_airports"
    /\ weather_cache' = [weather_cache EXCEPT !.airports = req[t].airports]
    /\ written_by' = [written_by EXCEPT !.airports = req[t].id]
    /\ req' = [req EXCEPT ![t].pc = "write_last_update"]
    /\ UNCHANGED <<decodeVars, now, calls>>

\* weather_cache['last_update'] = datetime.now(); return weather_data, airports
WriteLastUpdate(t) ==
    /\ req[t].pc = "write_last_update"
    /\ weather_cache' = [weather_cache EXCEPT !.last_update = Some(now)]
    /\ written_by' = [written_by EXCEPT !.last_update = req[t].id]
    /\ req' = [req EXCEPT ![t].pc = "respond", ![t].outcome = "refreshed",
                          ![t].ret_data = req[t].weather_data,
                          ![t].ret_airports = req[t].airports,
                          ![t].ret_by = [data |-> req[t].id,
                                         airports |-> req[t].id]]
    /\ UNCHANGED <<decodeVars, now, calls>>

\* except Exception: the cache is returned if it holds data, else re-raise.
Except(t) ==
    /\ req[t].pc = "except"
    /\ req' = [req EXCEPT ![t].pc =
                  IF DataTruthy(weather_cache.data) THEN "read_data" ELSE "respond",
               ![t].outcome =
                  IF DataTruthy(weather_cache.data) THEN "stale" ELSE "raised"]
    /\ UNCHANGED <<decodeVars, weather_cache, written_by, now, calls>>

\* The answer of api_refresh: 'success' with weather_cache['last_update']
\* when get_weather_data returned, 'error' (500) when anything raised.
ApiRefreshResponse(r) ==
    IF r.outcome = "raised" \/ weather_cache.last_update = None
       \/ r.ret_airports = None
    THEN [status |-> "error", code |-> 500, last_update |-> None]
    ELSE [status |-> "success", code |-> 200,
          last_update |-> weather_cache.last_update]

\* The answer of index: the page with weather_cache['last_update'], or the
\* error page (500) when anything raised.
IndexResponse(r) ==
    IF r.outcome = "raised" \/ r.ret_airports = None
    THEN [status |-> "error_page", code |-> 500, last_update |-> None]
    ELSE [status |-> "page", code |-> 200,
          last_update |-> weather_cache.last_update]

\* The route builds its answer from what get_weather_data returned.
Respond(t) ==
    /\ req[t].pc = "respond"
    /\ req' = [req EXCEPT ![t].pc = "done",
                          ![t].response =
                             Some(IF req[t].route = "api_refresh"
                                  THEN ApiRefreshResponse(req[t])
                                  ELSE IndexResponse(req[t]))]
    /\ UNCHANGED <<decodeVars, weather_cache, written_by, now, calls>>

\* One statement of a request thread, or a tick of the clock.
NextCache ==
    \/ Tick
    \/ \E t \in ThreadIds :
          \/ \E route \in Routes : Request(t, route)
          \/ CheckCache(t)
          \/ ReadData(t)
          \/ ReadAirports(t)
          \/ LoadAirports(t)
          \/ CheckSession(t)
          \/ Login(t)
          \/ FetchWeather(t)
          \/ WriteData(t)
          \/ WriteAirports(t)
          \/ WriteLastUpdate(t)
          \/ Except(t)
          \/ Respond(t)

SpecCache == InitCache /\ [][NextCache]_vars

\* The threads interleave within the validity of the cache.
NextThreads ==
    \E t \in ThreadIds :
          \/ \E route \in Routes : Request(t, route)
          \/ CheckCache(t)
          \/ ReadData(t)
          \/ ReadAirports(t)
          \/ LoadAirports(t)
          \/ CheckSession(t)
          \/ Login(t)
          \/ FetchWeather(t)
          \/ WriteData(t)
          \/ WriteAirports(t)
          \/ WriteLastUpdate(t)
          \/ Except(t)
          \/ Respond(t)

SpecThreads == InitThreads /\ [][NextThreads]_vars

-----------------------------------------------------------------------------
(* Vocabulary of the cache properties.                                     *)

\* Cached data that holds the report of a station.
GoodData(data) ==
    /\ IsSet(data)
    /\ \E k \in 1..Len(Val(data)) : IsSet(Val(data)[k].metar_raw)

\* The fields a refresh assigns at its end.
Refreshed(c) == <<c.data, c.airports, c.last_update>>

(* C24: a refresh whose weather fetch failed (network error during the    *)
(* bulk fetch, or failed login) never replaces cached good data: data and  *)
(* last_update change only by a request whose fetch completed              *)
(* successfully.                                                           *)
C24_FailedFetchKeepsCache ==
    [][(/\ GoodData(weather_cache.data)
        /\ \/ weather_cache'.data # weather_cache.data
           \/ weather_cache'.last_update # weather_cache.last_update)
       => \E t \in Threads :
             /\ req[t].pc \in {"write_data", "write_last_update"}
             /\ req'[t].pc # req[t].pc
             /\ req[t].fetch = "ok"]_vars

\* get_weather_data has returned or raised in thread t.
Finished(t) == req[t].outcome # "none" /\ req[t].pc \in {"respond", "done"}

\* The cache found on entry was valid for a call that does not force.
EnteredFresh(r) ==
    /\ ~r.force_refresh
    /\ IsSet(r.entry.data)
    /\ IsSet(r.entry.last_update)
    /\ r.entered_at - Val(r.entry.last_update) < 1800

(* C25: with force_refresh false, data cached and last_update less than    *)
(* 1800 seconds old, get_weather_data returns the cached (data, airports)  *)
(* without loading airports, logging in or fetching, and leaves every      *)
(* cache field unchanged; in every other case it attempts a refresh.       *)
C25_FreshCacheReturnedUntouched ==
    \A t \in Threads :
        /\ Finished(t) =>
              IF EnteredFresh(req[t])
              THEN /\ req[t].outcome = "cached"
                   /\ req[t].ret_data = req[t].entry.data
                   /\ req[t].ret_airports = req[t].entry.airports
                   /\ req[t].airports = None
                   /\ req[t].login = "none"
                   /\ req[t].fetch = "none"
                   /\ weather_cache = req[t].entry
              ELSE req[t].outcome \in {"refreshed", "stale", "raised"}
        /\ req[t].pc \in {"load_airports", "session", "login", "fetch", "except",
                          "write_data", "write_airports", "write_last_update"}
              => ~EnteredFresh(req[t])

\* A page request served from a cache that is 900 seconds old.
C25_Witness ==
    \E t \in Threads :
        /\ Finished(t)
        /\ req[t].outcome = "cached"
        /\ req[t].route = "index"
        /\ req[t].entered_at - Val(req[t].entry.last_update) = 900
        /\ GoodData(req[t].ret_data)

(* C26: if any step of a refresh raises, get_weather_data returns the      *)
(* previously cached (data, airports), however old, whenever data has been *)
(* cached before, and leaves data, airports and last_update unchanged;     *)
(* the exception reaches the caller only when nothing was ever cached.     *)
C26_RaisedRefreshFallsBackToCache ==
    \A t \in Threads :
        (Finished(t) /\ req[t].outcome \in {"stale", "raised"}) =>
            /\ Refreshed(weather_cache) = Refreshed(req[t].entry)
            /\ IF IsSet(req[t].entry.data)
               THEN /\ req[t].outcome = "stale"
                    /\ req[t].ret_data = req[t].entry.data
                    /\ req[t].ret_airports = req[t].entry.airports
               ELSE req[t].outcome = "raised"

(* C27: /api/refresh answers 'success' only when the data was refreshed    *)
(* during that request, that is when last_update was advanced by it; when  *)
(* the refresh fails it answers 'error' with status 500.                   *)
C27_SuccessMeansRefreshed ==
    \A t \in Threads :
        (req[t].pc = "done" /\ req[t].route = "api_refresh") =>
            /\ Val(req[t].response).status = "success"
                  => /\ req[t].outcome = "refreshed"
                     /\ written_by.last_update = req[t].id
            /\ req[t].outcome \in {"stale", "raised"}
                  => /\ Val(req[t].response).status = "error"
                     /\ Val(req[t].response).code = 500

(* C28: when get_weather_data calls of different request threads           *)
(* interleave, every returned (data, airports) pair was written by one and *)
(* the same refresh, and data, airports and last_update are either all     *)
(* unset or all set in every state.                                        *)
C28_PairsOfOneRefresh ==
    /\ \A t \in Threads :
          (Finished(t) /\ req[t].outcome # "raised") =>
              req[t].ret_by.data = req[t].ret_by.airports
    /\ \/ Refreshed(weather_cache) = <<None, None, None>>
       \/ /\ IsSet(weather_cache.data)
          /\ IsSet(weather_cache.airports)
          /\ IsSet(weather_cache.last_update)

\* Thread t executes the statement at pc in this step.
Executes(t, pc) == req[t].pc = pc /\ req'[t].pc # pc

(* C29: across any sequence of get_weather_data calls, login is attempted  *)
(* only when no session is cached; a successful login stores the session   *)
(* and every later refresh reuses it without logging in again; a failed    *)
(* login stores no session and no data, so the next refresh attempts login *)
(* again.                                                                  *)
C29_LoginOnlyWithoutSession ==
    [][\A t \in Threads :
          /\ Executes(t, "login") =>
                /\ weather_cache.session = None
                /\ req'[t].login = "ok" =>
                      /\ IsSet(weather_cache'.session)
                      /\ req'[t].session = weather_cache'.session
                /\ req'[t].login = "failed" =>
                      /\ weather_cache' = weather_cache
                      /\ req'[t].pc = "except"
          /\ Executes(t, "session") =>
                IF IsSet(weather_cache.session)
                THEN /\ req'[t].pc = "fetch"
                     /\ req'[t].session = weather_cache.session
                ELSE req'[t].pc = "login"
          /\ IsSet(weather_cache.session) =>
                weather_cache'.session = weather_cache.session
          /\ (req[t].login = "failed" /\ req[t].pc # "done") =>
                Refreshed(weather_cache') = Refreshed(weather_cache)]_vars

\* A third request that has fetched with the session stored by the login
\* of the second, without logging in itself.
C29_Witness ==
    \E t \in Threads :
        /\ req[t].id = 3
        /\ req[t].pc = "write_data"
        /\ req[t].login = "none"
        /\ req[t].session = Some(2)
        /\ weather_cache.session = Some(2)

-----------------------------------------------------------------------------
(* Vocabulary of the lightweight decoder's ceiling.                        *)

\* The heights of the BKN and OVC layers of a report, in feet.
BknOvcHeights(raw) ==
    {LayerHeight(GroupsOf(raw)[k]) :
        k \in {j \in 1..Len(GroupsOf(raw)) :
                  /\ IsCeilingGroup(GroupsOf(raw)[j])
                  /\ LayerDigitsAt(GroupsOf(raw)[j]) = 4}}

(* C30: decode_metar_raw sets ceiling_ft to the lowest BKN or OVC layer of *)
(* the report, the minimum height x 100 over all BKN/OVC layers whatever   *)
(* their order in the text, and leaves it None when there is no such layer *)
(* or when the raw text is empty.                                          *)
C30_LiteCeilingIsLowestLayer ==
    phase = "decode_metar_raw" =>
        IF Falsy(metar_raw) THEN Val(lite).ceiling_ft = None
        ELSE ~HasCavok(metar_raw) =>
                Val(lite).ceiling_ft =
                    IF BknOvcHeights(metar_raw) = {} THEN None
                    ELSE Some(MinOf(BknOvcHeights(metar_raw)))

=============================================================================
